---------------------------- MODULE Spec2Model ----------------------------
(***************************************************************************)
(* A model of the emulated Wii Remote of                                   *)
(* Source/Core/Core/HW/WiimoteEmu/WiimoteEmu.cpp: the reporting state      *)
(* machine (Reset, Update, SendDataReport), the extension port edge check  *)
(* and the two HID transport entry points.  Every handler is one atomic    *)
(* action; inside a handler the calls are composed in the order the code   *)
(* makes them, on a record "c" holding the object (c.wm), the persisted    *)
(* EEPROM file (c.file), the reports handed to CallbackInterruptChannel     *)
(* during the call (c.sent), the diagnostics logged during the call        *)
(* (c.log) and the value returned by the last bool function (c.ret).       *)
(***************************************************************************)
EXTENDS Integers, Naturals, Sequences, FiniteSets

VARIABLES
  wm,           \* the Wiimote object: a record of its member fields
  file,         \* contents of the persisted EEPROM file, or "absent"
  determinism,  \* Core::WantsDeterminism()
  sent,         \* reports passed to CallbackInterruptChannel by the last call
  log,          \* diagnostics (DEBUG_LOG / ERROR_LOG / PanicAlert) of the last call
  op,           \* the last call: its name and arguments
  hist,         \* history of the run, read only by the properties
  pc,           \* where the tick thread and the transport thread stand
  lock          \* the thread that holds the state lock (GetStateLock)

vars == <<wm, file, determinism, sent, log, op, hist, pc, lock>>

----------------------------------------------------------------------------
(* Bounds of the model.                                                    *)

\* Size in bytes of the read-memory requests the host issues.
MaxReadSize == 2
\* Bytes delivered by one read-data reply.
ReadChunk == 1
\* The dynamics state is the number of StepDynamics calls since Reset,
\* counted modulo DynPeriod.
DynPeriod == 2
\* Size in bytes of the largest camera or extension field of a data report
\* (the sizes of the report formats are scaled down to this).
MaxFieldSize == 2

----------------------------------------------------------------------------
(* Values.                                                                 *)

\* ::Wiimote::DOLPHIN_DISCONNET_CONTROL_CHANNEL, the reserved channel id
\* ControlChannel compares against; the model needs only that it differs
\* from the other channel ids.
DOLPHIN_DISCONNET_CONTROL_CHANNEL == 99

\* Channel ids a transport call may carry (u16).
ChannelIds == {0, 1, DOLPHIN_DISCONNET_CONTROL_CHANNEL}

\* InputReportID values used as reporting modes.
ReportDisabled == "ReportDisabled"
ReportCore == "ReportCore"
ReportInterleave1 == "ReportInterleave1"
ReportInterleave2 == "ReportInterleave2"
ReportCoreAccelIR10Ext6 == "ReportCoreAccelIR10Ext6"
ReportExt21 == "ReportExt21"

\* The modes SendDataReport may find in m_reporting_mode.
ReportModes ==
  {ReportDisabled, ReportCore, ReportInterleave1, ReportInterleave2,
   ReportCoreAccelIR10Ext6, ReportExt21}

\* ExtensionNumber values.
ExtensionNumbers == {"NONE", "NUNCHUK"}

\* Base addresses of host read requests.
ReadBases == {0, 8}

\* Output reports the host sends (the payload of a frame).
OutputReports ==
  [id : {"ReportMode"},
   mode : {ReportCore, ReportInterleave1, ReportInterleave2},
   continuous : BOOLEAN,
   address : {0}, size : {0}]
  \cup [id : {"RequestStatus"}, mode : {"-"}, continuous : {FALSE},
        address : {0}, size : {0}]
  \cup [id : {"ReadData"}, mode : {"-"}, continuous : {FALSE},
        address : ReadBases, size : {MaxReadSize}]

\* The write-memory output reports: one byte "data", 0 or 255, at offset
\* "address", the first byte or the checksum byte of the first IR
\* calibration block.
WriteDataReports ==
  [id : {"WriteData"}, mode : {"-"}, continuous : {FALSE},
   address : {0, 10}, size : {1}, data : {0, 255}]

\* The frame of a zero-size delivery carries nothing.
NoReport ==
  [id |-> "None", mode |-> "-", continuous |-> FALSE, address |-> 0, size |-> 0]

\* Reports handed to CallbackInterruptChannel.
Report(kind, mode, address, n) ==
  [kind |-> kind, mode |-> mode, address |-> address, n |-> n,
   ir |-> <<>>, ext |-> <<>>]

NoReadRequest == [address |-> 0, size |-> 0]

Kinds(s) == {s[i].kind : i \in 1..Len(s)}

CountKind(s, k) == Cardinality({i \in 1..Len(s) : s[i].kind = k})

----------------------------------------------------------------------------
(* The EEPROM.  m_eeprom is the array of bytes m_eeprom.data; the model    *)
(* keeps its calibration blocks, which the struct lays out first:          *)
(* ir_calibration_1, ir_calibration_2, accel_calibration_1 and             *)
(* accel_calibration_2.                                                    *)

\* Calibration constants of WiimoteEmu.h.
IR_LOW_X == 127
IR_LOW_Y == 93
IR_HIGH_X == 896
IR_HIGH_Y == 674
ACCEL_ZERO_G == 128
ACCEL_ONE_G == 154

\* Number of bytes of m_eeprom.data that Reset writes to and reads from the
\* file; the calibration blocks lie within them.
EEPROM_FREE_SIZE == 42

\* (x & 0x300) >> 8: bits 8 and 9 of x.
Bits89(x) == (x \div 256) % 4

RECURSIVE Sum(_)
Sum(s) == IF s = <<>> THEN 0 ELSE Head(s) + Sum(Tail(s))

\* Bitwise exclusive or of two bytes.
RECURSIVE Xor8(_, _)
Xor8(a, b) ==
  IF a = 0 /\ b = 0
    THEN 0
    ELSE ((a + b) % 2) + 2 * Xor8(a \div 2, b \div 2)

\* The checksum of the bytes of a calibration block that precede its
\* checksum byte: 0x55 combined with the 8-bit sum of the bytes.
Checksum(bytes) == Xor8(85, Sum(bytes) % 256)

\* UpdateCalibrationDataChecksum(data, 1): store the checksum of the
\* preceding bytes in the last byte of the block.
UpdateCalibrationDataChecksum(data) ==
  [data EXCEPT ![Len(data)] = Checksum(SubSeq(data, 1, Len(data) - 1))]

\* Reset, "IR calibration": the array before its checksum is updated.
ir_calibration ==
  << \* Point 1
     IR_LOW_X % 256,
     IR_LOW_Y % 256,
     \* Mix
     Bits89(IR_LOW_Y) * 64 + Bits89(IR_LOW_X) * 16 + Bits89(IR_LOW_Y) * 4
       + Bits89(IR_HIGH_X),
     \* Point 2
     IR_HIGH_X % 256,
     IR_LOW_Y % 256,
     \* Point 3
     IR_HIGH_X % 256,
     IR_HIGH_Y % 256,
     \* Mix
     Bits89(IR_HIGH_Y) * 64 + Bits89(IR_HIGH_X) * 16 + Bits89(IR_HIGH_Y) * 4
       + Bits89(IR_LOW_X),
     \* Point 4
     IR_LOW_X % 256,
     IR_HIGH_Y % 256,
     \* Checksum
     0 >>

\* Reset, "Accel calibration": the array before its checksum is updated.
accel_calibration ==
  <<ACCEL_ZERO_G, ACCEL_ZERO_G, ACCEL_ZERO_G, 0,
    ACCEL_ONE_G, ACCEL_ONE_G, ACCEL_ONE_G, 0, 0, 0>>

\* m_eeprom = {}.
ZeroEeprom == [i \in 1..EEPROM_FREE_SIZE |-> 0]

\* Default data whose checksum bytes are left at zero.
DefaultEepromUnchecked ==
  ir_calibration \o ir_calibration \o accel_calibration \o accel_calibration

\* Reset, "Load some default data".
DefaultEeprom ==
  UpdateCalibrationDataChecksum(ir_calibration)
    \o UpdateCalibrationDataChecksum(ir_calibration)
    \o UpdateCalibrationDataChecksum(accel_calibration)
    \o UpdateCalibrationDataChecksum(accel_calibration)

\* The calibration blocks of an EEPROM image.
ir_calibration_1(eeprom) == SubSeq(eeprom, 1, 11)

ir_calibration_2(eeprom) == SubSeq(eeprom, 12, 22)

accel_calibration_1(eeprom) == SubSeq(eeprom, 23, 32)

accel_calibration_2(eeprom) == SubSeq(eeprom, 33, 42)

----------------------------------------------------------------------------
(* Helpers on the call record.                                             *)

CallbackInterruptChannel(c, rpt) == [c EXCEPT !.sent = Append(@, rpt)]

Log(c, what) == [c EXCEPT !.log = @ \cup {what}]

Ret(c, v) == [c EXCEPT !.ret = v]

\* ExtensionPort::IsDeviceConnected: the device-detect pin of the attached
\* extension; the "none" extension reads as not connected.
IsDeviceConnected(w) == w.m_active_extension # "NONE"

StatusReport == Report("status", "-", 0, 0)

HandshakeReport == Report("handshake", "-", 0, 0)

----------------------------------------------------------------------------
(* Sub-routines of the object that Update, Reset and the transport entry  *)
(* points call.                                                            *)

\* Wiimote::SetRumble.
SetRumble(c, on) == [c EXCEPT !.wm.m_rumble = on]

\* Wiimote::HandleExtensionSwap: switch to the extension (and motion
\* adapter) selected in the configuration: the current extension is
\* detached and the selected one attached.
HandleExtensionSwap(c) ==
  [c EXCEPT !.wm.m_active_extension = c.wm.m_attachments,
            !.wm.m_is_motion_plus_attached = c.wm.m_motion_plus_setting,
            !.wm.m_i2c_bus = @ \cup {"extension"}]

\* Wiimote::HandleRequestStatus: record the port's connection state in the
\* status struct and send the status report.
HandleRequestStatus(c) ==
  CallbackInterruptChannel(
    [c EXCEPT !.wm.m_status.extension = IsDeviceConnected(c.wm)],
    StatusReport)

\* Wiimote::HandleReportMode: the host sets the reporting mode and the
\* continuous flag; a pending read request is invalidated by the change.
HandleReportMode(c, rpt) ==
  [c EXCEPT !.wm.m_reporting_mode = rpt.mode,
            !.wm.m_reporting_continuous = rpt.continuous,
            !.wm.m_read_request = NoReadRequest]

\* A HandleReadData that refuses a request while another is pending.
HandleReadDataKeepsPending(c, rpt) ==
  IF c.wm.m_read_request.size > 0
    THEN c
    ELSE [c EXCEPT !.wm.m_read_request =
                     [address |-> rpt.address, size |-> rpt.size]]

\* Wiimote::HandleReadData: a new read request replaces the pending one.
HandleReadData(c, rpt) ==
  [c EXCEPT !.wm.m_read_request =
              [address |-> rpt.address, size |-> rpt.size]]

\* Wiimote::HandleWriteData: a write into the EEPROM marks it dirty.
HandleWriteData(c, rpt) ==
  [c EXCEPT !.wm.m_eeprom[rpt.address + 1] = rpt.data,
            !.wm.m_eeprom_dirty = TRUE]

\* Wiimote::HIDOutputReport: dispatch on the output report id.
HIDOutputReport(c, rpt) ==
  CASE rpt.id = "ReportMode" -> HandleReportMode(c, rpt)
    [] rpt.id = "RequestStatus" -> HandleRequestStatus(c)
    [] rpt.id = "ReadData" -> HandleReadData(c, rpt)
    [] rpt.id = "WriteData" -> HandleWriteData(c, rpt)
    [] OTHER -> c

\* Wiimote::ProcessReadDataRequest: service one step of the pending read
\* request: one read-data reply of at most ReadChunk bytes.
ProcessReadDataRequest(c) ==
  LET rr == c.wm.m_read_request
      n == IF rr.size < ReadChunk THEN rr.size ELSE ReadChunk
  IN IF rr.size = 0
       THEN Ret(c, FALSE)
       ELSE Ret(CallbackInterruptChannel(
                  [c EXCEPT !.wm.m_read_request =
                              [address |-> rr.address + n,
                               size |-> rr.size - n]],
                  Report("read", "-", rr.address, n)),
                TRUE)

\* Wiimote::StepDynamics.
StepDynamics(c) ==
  [c EXCEPT !.wm.m_dynamics = (c.wm.m_dynamics + 1) % DynPeriod]

\* Wiimote::UpdateButtonsStatus: the snapshot is taken from the bindings.
UpdateButtonsStatus(c) ==
  [c EXCEPT !.wm.m_status.buttons = c.wm.m_buttons, !.polls = @ + 1]

\* DataReportBuilder::HasCore.
HasCore(mode) == mode \notin {ReportDisabled, ReportExt21}

\* DataReportBuilder::HasIR.
HasIR(mode) ==
  mode \in {ReportInterleave1, ReportInterleave2, ReportCoreAccelIR10Ext6}

\* DataReportBuilder::HasExt.
HasExt(mode) == mode \in {ReportCoreAccelIR10Ext6, ReportExt21}

\* A call made to a sub-device is recorded.
Query(c, q) == [c EXCEPT !.queries = @ \o q]

\* rpt_builder.GetCoreData(&m_status.buttons): the buttons of the report
\* buffer, where the mode has core data, become the snapshot.
GetCoreData(c, mode) ==
  IF HasCore(mode)
    THEN [c EXCEPT !.wm.m_status.buttons = c.core_data]
    ELSE c

\* DataReportBuilder::GetIRDataSize.
GetIRDataSize(mode) ==
  CASE mode \in {ReportInterleave1, ReportInterleave2} -> MaxFieldSize
    [] mode = ReportCoreAccelIR10Ext6 -> MaxFieldSize - 1
    [] OTHER -> 0

\* DataReportBuilder::GetExtDataSize.
GetExtDataSize(mode) ==
  CASE mode = ReportExt21 -> MaxFieldSize
    [] mode = ReportCoreAccelIR10Ext6 -> MaxFieldSize - 1
    [] OTHER -> 0

\* I2CBus::BusRead: the bytes the addressed slave delivers for a read of
\* "size" bytes: none when no slave with that address is registered or when
\* the port holds the "none" extension, else at most "size" of the bytes
\* the device has (c.bus).
BusRead(c, slave, size) ==
  IF slave \notin c.wm.m_i2c_bus
       \/ (slave = "extension" /\ ~IsDeviceConnected(c.wm))
    THEN <<>>
    ELSE SubSeq(c.bus[slave], 1,
                IF Len(c.bus[slave]) < size THEN Len(c.bus[slave]) ELSE size)

\* std::fill_n(data, size, u8(0xff)).
Fill(size) == [i \in 1..size |-> 255]

\* A camera field whose unread bytes keep the buffer's zeroes.
IRFieldNoFill(c, mode) ==
  LET ir_size == GetIRDataSize(mode)
      ir_data == BusRead(c, "camera", ir_size)
  IN [i \in 1..ir_size |-> IF i <= Len(ir_data) THEN ir_data[i] ELSE 0]

\* SendDataReport, "IR Camera": the camera field of the report.
IRField(c, mode) ==
  LET ir_size == GetIRDataSize(mode)
      ir_data == BusRead(c, "camera", ir_size)
  IN IF ~HasIR(mode)
       THEN <<>>
       ELSE IF ir_size # Len(ir_data) THEN Fill(ir_size) ELSE ir_data

\* An extension field that keeps the bytes read and fills only the rest.
ExtFieldTailFill(c, mode) ==
  LET ext_size == GetExtDataSize(mode)
      ext_data == BusRead(c, "extension", ext_size)
  IN [i \in 1..ext_size |-> IF i <= Len(ext_data) THEN ext_data[i] ELSE 255]

\* SendDataReport, "Extension port": the extension field of the report.
ExtField(c, mode) ==
  LET ext_size == GetExtDataSize(mode)
      ext_data == BusRead(c, "extension", ext_size)
  IN IF ~HasExt(mode)
       THEN <<>>
       ELSE IF ext_size # Len(ext_data) THEN Fill(ext_size) ELSE ext_data

----------------------------------------------------------------------------
(* The operations of WiimoteEmu.cpp.                                       *)

\* A start of Reset that leaves the device in the Disabled reporting mode.
ResetReportingToDisabled(c) ==
  [c EXCEPT !.wm.m_reporting_channel = 0,
            !.wm.m_reporting_mode = ReportDisabled,
            !.wm.m_reporting_continuous = FALSE,
            !.wm.m_speaker_mute = FALSE]

\* Wiimote::Reset, "Wiimote starts in non-continuous CORE mode".
ResetReporting(c) ==
  [c EXCEPT !.wm.m_reporting_channel = 0,
            !.wm.m_reporting_mode = ReportCore,
            !.wm.m_reporting_continuous = FALSE,
            !.wm.m_speaker_mute = FALSE]

\* A write-out that does not look at the dirty flag.
ResetEepromWriteAlways(c) ==
  [Log(c, "Wrote EEPROM") EXCEPT
     !.file = IF c.io.write_ok
                THEN SubSeq(c.wm.m_eeprom, 1, EEPROM_FREE_SIZE)
                ELSE @,
     !.wm.m_eeprom_dirty = FALSE]

\* Wiimote::Reset, "Write out existing EEPROM": the first EEPROM_FREE_SIZE
\* bytes go to the file (nothing does when the file cannot be opened for
\* writing) and the dirty flag is cleared.
ResetEepromWrite(c) ==
  IF c.wm.m_eeprom_dirty
    THEN [Log(c, "Wrote EEPROM") EXCEPT
            !.file = IF c.io.write_ok
                       THEN SubSeq(c.wm.m_eeprom, 1, EEPROM_FREE_SIZE)
                       ELSE @,
            !.wm.m_eeprom_dirty = FALSE]
    ELSE c

\* A load that takes the default data although the file exists.
ResetEepromLoadDefaults(c) == [c EXCEPT !.wm.m_eeprom = DefaultEeprom]

\* Wiimote::Reset, "m_eeprom = {}" and "Read existing EEPROM" or "Load
\* some default data": an existing file that cannot be opened or read
\* leaves the zeroes.
ResetEepromLoad(c) ==
  LET c4 == [c EXCEPT !.wm.m_eeprom = ZeroEeprom]
  IN IF c4.file # "absent"
       THEN IF c4.io.read_ok
              THEN [c4 EXCEPT !.wm.m_eeprom =
                                c4.file \o SubSeq(ZeroEeprom,
                                                   EEPROM_FREE_SIZE + 1,
                                                   Len(ZeroEeprom))]
              ELSE c4
       ELSE [c4 EXCEPT !.wm.m_eeprom = DefaultEeprom]

\* An EEPROM section that leaves the pending read request in place.
ResetEepromKeepsReadRequest(c) == ResetEepromLoad(ResetEepromWrite(c))

\* Wiimote::Reset, "EEPROM", and the clearing of the read request.
ResetEeprom(c) ==
  [ResetEepromLoad(ResetEepromWrite(c)) EXCEPT
     !.wm.m_read_request = NoReadRequest]

\* Wiimote::Reset, "Initialize i2c bus", "Reset extension connections to
\* NONE" and "Switch to desired M+ status and extension (if any)".
ResetExtensions(c) ==
  HandleExtensionSwap(
    [c EXCEPT !.wm.m_i2c_bus = {"speaker", "camera"},
              !.wm.m_is_motion_plus_attached = FALSE,
              !.wm.m_active_extension = "NONE"])

\* Wiimote::Reset, "m_status = {}".
ResetStatusClear(c) ==
  [c EXCEPT !.wm.m_status = [extension |-> FALSE, buttons |-> FALSE]]

\* An end of Reset that leaves the cleared status as it is.
ResetStatusNoSuppress(c) == [c EXCEPT !.wm.m_dynamics = 0]

\* Wiimote::Reset, from "This will suppress a status report on connect
\* when an extension is already attached" to the end ("Dynamics").
ResetStatus(c) ==
  [c EXCEPT !.wm.m_status.extension = IsDeviceConnected(c.wm),
            !.wm.m_dynamics = 0]

\* Wiimote::Reset.
Reset(c) ==
  ResetStatus(
    ResetStatusClear(
      ResetExtensions(ResetEeprom(ResetReporting(SetRumble(c, FALSE))))))

\* A ProcessExtensionPortEvent that announces the edge but leaves the
\* reporting mode as it is.
PortEventKeepsMode(c) ==
  IF IsDeviceConnected(c.wm) = c.wm.m_status.extension
    THEN Ret(c, FALSE)
    ELSE Ret(HandleRequestStatus(Log(c, "extension status change")), TRUE)

\* A ProcessExtensionPortEvent that drops the pending read request on an
\* edge.
PortEventDropsRead(c) ==
  IF IsDeviceConnected(c.wm) = c.wm.m_status.extension
    THEN Ret(c, FALSE)
    ELSE Ret(HandleRequestStatus(
               Log([c EXCEPT !.wm.m_reporting_mode = ReportDisabled,
                             !.wm.m_read_request = NoReadRequest],
                   "extension status change")),
             TRUE)

\* Wiimote::ProcessExtensionPortEvent.
ProcessExtensionPortEvent(c) ==
  IF IsDeviceConnected(c.wm) = c.wm.m_status.extension
    THEN Ret(c, FALSE)
    ELSE Ret(HandleRequestStatus(
               Log([c EXCEPT !.wm.m_reporting_mode = ReportDisabled],
                   "extension status change")),
             TRUE)

\* A SendDataReport without the early return of the Disabled mode.
SendDataReportAlways(c) ==
  LET mode == c.wm.m_reporting_mode
      c1 == IF HasCore(mode) /\ c.determinism
              THEN UpdateButtonsStatus(c)
              ELSE c
      c2 == CallbackInterruptChannel(
                  c1,
                  [Report("data", mode, 0, 0) EXCEPT
                     !.ir = IRField(c1, mode), !.ext = ExtField(c1, mode)])
  IN IF mode = ReportInterleave1
       THEN [c2 EXCEPT !.wm.m_reporting_mode = ReportInterleave2]
       ELSE IF mode = ReportInterleave2
         THEN [c2 EXCEPT !.wm.m_reporting_mode = ReportInterleave1]
         ELSE c2

\* A SendDataReport that does not toggle the interleaved modes.
SendDataReportNoToggle(c) ==
  IF c.wm.m_reporting_mode = ReportDisabled
    THEN c
    ELSE
      LET mode == c.wm.m_reporting_mode
          c1 == IF HasCore(mode) /\ c.determinism
                  THEN UpdateButtonsStatus(c)
                  ELSE c
      IN CallbackInterruptChannel(
                  c1,
                  [Report("data", mode, 0, 0) EXCEPT
                     !.ir = IRField(c1, mode), !.ext = ExtField(c1, mode)])

\* A SendDataReport that toggles the interleaved mode before it builds the
\* report.
SendDataReportToggleFirst(c) ==
  IF c.wm.m_reporting_mode = ReportDisabled
    THEN c
    ELSE
      LET mode == c.wm.m_reporting_mode
          next == IF mode = ReportInterleave1
                    THEN ReportInterleave2
                    ELSE IF mode = ReportInterleave2
                      THEN ReportInterleave1
                      ELSE mode
      IN CallbackInterruptChannel(
           [c EXCEPT !.wm.m_reporting_mode = next],
           [Report("data", next, 0, 0) EXCEPT
              !.ir = IRField(c, next), !.ext = ExtField(c, next)])

\* A core section that refreshes the snapshot whether determinism is
\* wanted or not.
SendCoreAlways(c, mode) ==
  IF HasCore(mode) THEN UpdateButtonsStatus(c) ELSE c

\* SendDataReport, "Core buttons": the snapshot is refreshed here when
\* determinism is wanted.
SendCore(c, mode) ==
  IF HasCore(mode) /\ c.determinism THEN UpdateButtonsStatus(c) ELSE c

\* An extension section that reads the bus before the motion adapter has
\* prepared its input.
SendExtReadFirst(c, mode) ==
  IF HasExt(mode)
    THEN Query(c,
               <<"BusRead extension">>
                 \o (IF c.wm.m_is_motion_plus_attached
                       THEN <<"m_motion_plus.PrepareInput">>
                       ELSE <<>>))
    ELSE c

\* SendDataReport, "IR Camera": the camera logic is updated and the bus
\* is read at the camera's address.
SendIR(c, mode) ==
  IF HasIR(mode)
    THEN Query(c, <<"m_camera_logic.Update", "BusRead camera">>)
    ELSE c

\* SendDataReport, "Extension port": the motion adapter, when attached,
\* prepares its input, then the bus is read at the extension's address.
SendExt(c, mode) ==
  IF HasExt(mode)
    THEN Query(c,
               (IF c.wm.m_is_motion_plus_attached
                  THEN <<"m_motion_plus.PrepareInput">>
                  ELSE <<>>) \o <<"BusRead extension">>)
    ELSE c

\* The fields of a report that movie playback supplies.
MovieField(size) == [i \in 1..size |-> 0]

\* Wiimote::SendDataReport.
SendDataReport(c) ==
  IF c.wm.m_reporting_mode = ReportDisabled
    THEN c
    ELSE
      LET mode == c.wm.m_reporting_mode
          \* The report comes from the movie, or from the core buttons,
          \* the camera and the extension port, in this order
          c0 == IF c.movie
                  THEN GetCoreData(c, mode)
                  ELSE SendExt(SendIR(SendCore(c, mode), mode), mode)
          c1 == IF c.netplay THEN GetCoreData(c0, mode) ELSE c0
          \* Send the report
          c2 == CallbackInterruptChannel(
                  c1,
                  [Report("data", mode, 0, 0) EXCEPT
                     !.ir = IF c.movie
                              THEN MovieField(GetIRDataSize(mode))
                              ELSE IRField(c1, mode),
                     !.ext = IF c.movie
                               THEN MovieField(GetExtDataSize(mode))
                               ELSE ExtField(c1, mode)])
      IN \* The interleaved reporting modes toggle back and forth
         IF mode = ReportInterleave1
           THEN [c2 EXCEPT !.wm.m_reporting_mode = ReportInterleave2]
           ELSE IF mode = ReportInterleave2
             THEN [c2 EXCEPT !.wm.m_reporting_mode = ReportInterleave1]
             ELSE c2

\* Update, "Allow extension to perform any regular duties it may need":
\* the active extension is updated, then the motion adapter when attached.
ExtensionUpdate(c) ==
  Query(c,
        <<"GetActiveExtension()->Update">>
          \o (IF c.wm.m_is_motion_plus_attached
                THEN <<"m_motion_plus.Update">>
                ELSE <<>>))

\* An Update that goes on to the read service and the data report after
\* an extension port event.
UpdateWithoutShortCircuit(c) ==
  IF c.wm.m_reporting_channel = 0
    THEN c
    ELSE
      LET c1 == StepDynamics(c)
          c2 == IF ~c1.determinism THEN UpdateButtonsStatus(c1) ELSE c1
          c3 == HandleExtensionSwap(c2)
          c4 == ProcessExtensionPortEvent(c3)
          c5 == ProcessReadDataRequest(c4)
      IN IF c5.ret THEN c5 ELSE SendDataReport(c5)

\* An Update that services the read request before it checks the
\* extension port.
UpdateReadFirst(c) ==
  IF c.wm.m_reporting_channel = 0
    THEN c
    ELSE
      LET c1 == StepDynamics(c)
          c2 == IF ~c1.determinism THEN UpdateButtonsStatus(c1) ELSE c1
          c3 == ExtensionUpdate(HandleExtensionSwap(c2))
          c4 == ProcessReadDataRequest(c3)
          c5 == ProcessExtensionPortEvent(c4)
      IN IF c4.ret
           THEN c4
           ELSE IF c5.ret THEN c5 ELSE SendDataReport(c5)

\* An Update that does not service the read request.
UpdateSkipsRead(c) ==
  IF c.wm.m_reporting_channel = 0
    THEN c
    ELSE
      LET c1 == StepDynamics(c)
          c2 == IF ~c1.determinism THEN UpdateButtonsStatus(c1) ELSE c1
          c3 == ExtensionUpdate(HandleExtensionSwap(c2))
          c4 == ProcessExtensionPortEvent(c3)
      IN IF c4.ret THEN c4 ELSE SendDataReport(c4)

\* An Update that sends a data report after a read reply too.
UpdateSendsAfterRead(c) ==
  IF c.wm.m_reporting_channel = 0
    THEN c
    ELSE
      LET c1 == StepDynamics(c)
          c2 == IF ~c1.determinism THEN UpdateButtonsStatus(c1) ELSE c1
          c3 == ExtensionUpdate(HandleExtensionSwap(c2))
          c4 == ProcessExtensionPortEvent(c3)
          c5 == ProcessReadDataRequest(c4)
      IN IF c4.ret THEN c4 ELSE SendDataReport(c5)

\* An Update without the check of the logical channel.
UpdateUnbound(c) ==
  LET c1 == StepDynamics(c)
      c2 == IF ~c1.determinism THEN UpdateButtonsStatus(c1) ELSE c1
      c3 == HandleExtensionSwap(c2)
      c4 == ProcessExtensionPortEvent(c3)
      c5 == ProcessReadDataRequest(c4)
  IN IF c4.ret
       THEN c4
       ELSE IF c5.ret THEN c5 ELSE SendDataReport(c5)

\* Wiimote::Update.
Update(c) ==
  \* Check if connected.
  IF c.wm.m_reporting_channel = 0
    THEN c
    ELSE
      LET c1 == StepDynamics(c)
          c2 == IF ~c1.determinism THEN UpdateButtonsStatus(c1) ELSE c1
          \* If a new extension is requested in the GUI the change will
          \* happen here.
          c3 == ExtensionUpdate(HandleExtensionSwap(c2))
          c4 == ProcessExtensionPortEvent(c3)
          c5 == ProcessReadDataRequest(c4)
      IN IF c4.ret
           THEN c4
           ELSE IF c5.ret THEN c5 ELSE SendDataReport(c5)

\* A ControlChannel that sends the handshake before it dispatches the
\* output report.
ControlChannelHandshakeFirst(c, channel_id, fr) ==
  IF channel_id = DOLPHIN_DISCONNET_CONTROL_CHANNEL
    THEN Reset(c)
    ELSE IF fr.size = 0
      THEN Log(c, "zero sized data")
      ELSE
        LET c1 == [c EXCEPT !.wm.m_reporting_channel = channel_id]
        IN CASE fr.type = "HID_TYPE_SET_REPORT"
                  /\ fr.param # "HID_PARAM_INPUT" ->
                  HIDOutputReport(
                    CallbackInterruptChannel(c1, HandshakeReport), fr.rpt)
             [] OTHER -> Log(c1, "PanicAlert")

\* A ControlChannel without the check for the reserved channel id.
ControlChannelNoDisconnect(c, channel_id, fr) ==
  IF fr.size = 0
    THEN Log(c, "zero sized data")
    ELSE
      LET c1 == [c EXCEPT !.wm.m_reporting_channel = channel_id]
      IN CASE fr.type = "HID_TYPE_SET_REPORT" /\ fr.param # "HID_PARAM_INPUT" ->
                CallbackInterruptChannel(
                  HIDOutputReport(c1, fr.rpt), HandshakeReport)
           [] OTHER -> Log(c1, "PanicAlert")

\* Wiimote::ControlChannel.
ControlChannel(c, channel_id, fr) ==
  IF channel_id = DOLPHIN_DISCONNET_CONTROL_CHANNEL
    THEN Reset(c)
    ELSE IF fr.size = 0
      THEN Log(c, "zero sized data")
      ELSE
        LET c1 == [c EXCEPT !.wm.m_reporting_channel = channel_id]
        IN CASE fr.type = "HID_TYPE_HANDSHAKE" -> Log(c1, "PanicAlert")
             [] fr.type = "HID_TYPE_SET_REPORT" ->
                  IF fr.param = "HID_PARAM_INPUT"
                    THEN Log(c1, "PanicAlert")
                    ELSE CallbackInterruptChannel(
                           HIDOutputReport(c1, fr.rpt), HandshakeReport)
             [] fr.type = "HID_TYPE_DATA" -> Log(c1, "PanicAlert")
             [] OTHER -> Log(c1, "PanicAlert")

\* An InterruptChannel that answers a frame it does not dispatch with a
\* handshake.
InterruptChannelAnomalyAcks(c, channel_id, fr) ==
  IF fr.size = 0
    THEN Log(c, "zero sized data")
    ELSE
      LET c1 == [c EXCEPT !.wm.m_reporting_channel = channel_id]
      IN CASE fr.type = "HID_TYPE_DATA" /\ fr.param = "HID_PARAM_OUTPUT" ->
                HIDOutputReport(c1, fr.rpt)
           [] OTHER ->
                CallbackInterruptChannel(Log(c1, "PanicAlert"),
                                         HandshakeReport)

\* An InterruptChannel that binds the channel before it looks at the size.
InterruptChannelBindsFirst(c, channel_id, fr) ==
  LET c1 == [c EXCEPT !.wm.m_reporting_channel = channel_id]
  IN IF fr.size = 0
       THEN Log(c1, "zero sized data")
       ELSE
         CASE fr.type = "HID_TYPE_DATA" /\ fr.param = "HID_PARAM_OUTPUT" ->
                HIDOutputReport(c1, fr.rpt)
           [] OTHER -> Log(c1, "PanicAlert")

\* Wiimote::InterruptChannel.
InterruptChannel(c, channel_id, fr) ==
  IF fr.size = 0
    THEN Log(c, "zero sized data")
    ELSE
      LET c1 == [c EXCEPT !.wm.m_reporting_channel = channel_id]
      IN CASE fr.type = "HID_TYPE_DATA" ->
                IF fr.param = "HID_PARAM_OUTPUT"
                  THEN HIDOutputReport(c1, fr.rpt)
                  ELSE Log(c1, "PanicAlert")
           [] OTHER -> Log(c1, "PanicAlert")

----------------------------------------------------------------------------
(* The state machine.                                                      *)

\* HID frames a transport call may deliver: the zero-size frame, the
\* frames whose type and parameter no handler dispatches, and the frames
\* that carry an output report (type and param as the entry point wants).
ZeroFrame == [size |-> 0, type |-> "-", param |-> "-", rpt |-> NoReport]

Frames(type) ==
  {ZeroFrame}
  \cup {fr \in [size : {1},
                type : {"HID_TYPE_HANDSHAKE", "HID_TYPE_SET_REPORT",
                        "HID_TYPE_DATA", "HID_TYPE_GET_REPORT"},
                param : {"HID_PARAM_INPUT", "HID_PARAM_OUTPUT"},
                rpt : {NoReport}] :
          ~(fr.type = type /\ fr.param = "HID_PARAM_OUTPUT")}
  \cup [size : {1}, type : {type}, param : {"HID_PARAM_OUTPUT"},
        rpt : OutputReports]

\* The object before the constructor's Reset() has run: the members'
\* default initialisers and the settings' default values.
Constructed ==
  [m_reporting_channel |-> 0,
   m_reporting_mode |-> ReportDisabled,
   m_reporting_continuous |-> FALSE,
   m_speaker_mute |-> FALSE,
   m_rumble |-> FALSE,
   m_eeprom |-> ZeroEeprom,
   m_eeprom_dirty |-> FALSE,
   m_read_request |-> NoReadRequest,
   m_i2c_bus |-> {},
   m_is_motion_plus_attached |-> FALSE,
   m_active_extension |-> "NONE",
   m_status |-> [extension |-> FALSE, buttons |-> FALSE],
   m_dynamics |-> 0,
   m_attachments |-> "NONE",
   m_motion_plus_setting |-> TRUE,
   m_buttons |-> FALSE]

\* Whether the EEPROM file can be opened and written, and opened and
\* read, during the call: here both.
IoOk == [write_ok |-> TRUE, read_ok |-> TRUE]

\* The bytes a camera or an extension has for a read of the bus: here
\* enough for every report format.
FullBus ==
  [camera |-> [i \in 1..MaxFieldSize |-> 0],
   extension |-> [i \in 1..MaxFieldSize |-> 0]]

\* No call is in progress on either thread.
IdlePc == [tick |-> "idle", transport |-> "idle", rpt |-> NoReport]

\* The record a call works on.
\*   movie, netplay   Movie::IsPlayingInput() && Movie::PlayWiimote(...)
\*                    and NetPlay::IsNetPlayRunning() during the call
\*   core_data        the buttons in the report such a source supplies
\*   polls            the number of calls of UpdateButtonsStatus
\*   queries          the calls made to the sub-devices, in order
Call == [wm |-> wm, file |-> file, determinism |-> determinism,
         bus |-> FullBus, io |-> IoOk, sent |-> <<>>, log |-> {},
         ret |-> FALSE, movie |-> FALSE, netplay |-> FALSE,
         core_data |-> FALSE, polls |-> 0, queries |-> <<>>]

\* The history the properties read:
\*   chg          a call other than a tick has changed the port's connection
\*                state since the last tick that ran with a bound channel
\*   since_edge   "edge" since a tick last forced the mode to Disabled,
\*                "edge_reset" once a Reset has followed it, "none" once
\*                the host has set a reporting mode (and initially)
\*   latest_read  the read request the host issued last (none after a
\*                Reset or a mode change)
\*   delivered    the addresses the read replies have delivered since
\*   discarded    that request arrived while a request for another range
\*                was pending
\*   read_cut     an extension edge occurred while that request was pending
NoHist ==
  [chg |-> FALSE, since_edge |-> "none", latest_read |-> NoReadRequest,
   delivered |-> <<>>, discarded |-> FALSE, read_cut |-> FALSE]

\* The addresses delivered by the read-data replies of s, in order.
RECURSIVE Delivered(_)
Delivered(s) ==
  IF s = <<>>
    THEN <<>>
    ELSE (IF Head(s).kind = "read"
            THEN [i \in 1..Head(s).n |-> Head(s).address + i - 1]
            ELSE <<>>) \o Delivered(Tail(s))

HistAfterReset(c) ==
  [chg |-> hist.chg \/ IsDeviceConnected(c.wm) # IsDeviceConnected(wm),
   since_edge |-> IF hist.since_edge = "none" THEN "none" ELSE "edge_reset",
   latest_read |-> NoReadRequest,
   delivered |-> <<>>,
   discarded |-> FALSE,
   read_cut |-> FALSE]

HistAfterUpdate(c) ==
  LET edge == "extension status change" \in c.log
  IN [hist EXCEPT
        !.chg = IF wm.m_reporting_channel # 0 THEN FALSE ELSE @,
        !.since_edge = IF edge THEN "edge" ELSE @,
        !.delivered = @ \o Delivered(c.sent),
        !.read_cut = @ \/ (edge /\ wm.m_read_request.size > 0)]

HistAfterOutputReport(rpt) ==
  CASE rpt.id = "ReportMode" ->
         [hist EXCEPT !.since_edge = "none",
                      !.latest_read = NoReadRequest,
                      !.delivered = <<>>, !.discarded = FALSE,
                      !.read_cut = FALSE]
    [] rpt.id = "ReadData" ->
         [hist EXCEPT
            !.latest_read = [address |-> rpt.address, size |-> rpt.size],
            !.delivered = <<>>,
            !.discarded = /\ wm.m_read_request.size > 0
                          /\ hist.latest_read.address # rpt.address,
            !.read_cut = FALSE]
    [] OTHER -> hist

Commit(c, o, h) ==
  /\ wm' = c.wm
  /\ file' = c.file
  /\ sent' = c.sent
  /\ log' = c.log
  /\ op' = o
  /\ hist' = h
  /\ UNCHANGED <<determinism, pc, lock>>

\* The last call: its name and the class of its arguments: "disconnect"
\* (ControlChannel with the reserved channel id; "disconnect0" when the
\* frame is of size zero too), "zero" (another zero-size frame), "anomaly"
\* (a frame no handler dispatches) or the id of the output report carried.
Op(name, what) == [name |-> name, what |-> what]

Init ==
  /\ file = "absent"
  /\ determinism = FALSE
  /\ wm = Reset([wm |-> Constructed, file |-> file,
                 determinism |-> determinism, bus |-> FullBus,
                 io |-> IoOk, sent |-> <<>>, log |-> {}, ret |-> FALSE]).wm
  /\ sent = <<>>
  /\ log = {}
  /\ op = Op("Wiimote", "-")
  /\ hist = NoHist
  /\ pc = IdlePc
  /\ lock = "free"

DoReset == Commit(Reset(Call), Op("Reset", "-"), HistAfterReset(Reset(Call)))

DoUpdate ==
  Commit(Update(Call), Op("Update", "-"), HistAfterUpdate(Update(Call)))

\* Whether ControlChannel hands the frame's payload to HIDOutputReport.
ControlDispatches(channel_id, fr) ==
  /\ channel_id # DOLPHIN_DISCONNET_CONTROL_CHANNEL
  /\ fr.size # 0
  /\ fr.type = "HID_TYPE_SET_REPORT"
  /\ fr.param # "HID_PARAM_INPUT"

\* Whether InterruptChannel hands the frame's payload to HIDOutputReport.
InterruptDispatches(channel_id, fr) ==
  /\ fr.size # 0
  /\ fr.type = "HID_TYPE_DATA"
  /\ fr.param = "HID_PARAM_OUTPUT"

DoControlChannel ==
  \E channel_id \in ChannelIds, fr \in Frames("HID_TYPE_SET_REPORT") :
    LET c == ControlChannel(Call, channel_id, fr)
        d == ControlDispatches(channel_id, fr)
    IN Commit(c,
              Op("ControlChannel",
                 IF channel_id = DOLPHIN_DISCONNET_CONTROL_CHANNEL
                   THEN (IF fr.size = 0 THEN "disconnect0" ELSE "disconnect")
                   ELSE IF fr.size = 0
                     THEN "zero"
                     ELSE IF d THEN fr.rpt.id ELSE "anomaly"),
              IF channel_id = DOLPHIN_DISCONNET_CONTROL_CHANNEL
                THEN HistAfterReset(c)
                ELSE IF d
                  THEN HistAfterOutputReport(fr.rpt)
                  ELSE hist)

DoInterruptChannel ==
  \E channel_id \in ChannelIds, fr \in Frames("HID_TYPE_DATA") :
    LET c == InterruptChannel(Call, channel_id, fr)
        d == InterruptDispatches(channel_id, fr)
    IN Commit(c,
              Op("InterruptChannel",
                 IF fr.size = 0
                   THEN "zero"
                   ELSE IF d THEN fr.rpt.id ELSE "anomaly"),
              IF d
                THEN HistAfterOutputReport(fr.rpt)
                ELSE hist)

\* The user selects another extension in the configuration.
SelectAttachment ==
  \E e \in ExtensionNumbers :
    /\ e # wm.m_attachments
    /\ Commit([Call EXCEPT !.wm.m_attachments = e],
              Op("SelectAttachment", "-"),
              hist)

\* The user toggles the "Attach MotionPlus" setting.
ToggleMotionPlus ==
  Commit([Call EXCEPT !.wm.m_motion_plus_setting = ~@],
         Op("ToggleMotionPlus", "-"), hist)

\* The bound inputs change: a button is pressed or released.
ChangeButtons ==
  Commit([Call EXCEPT !.wm.m_buttons = ~@], Op("ChangeButtons", "-"),
         hist)

Next ==
  \/ DoReset
  \/ DoUpdate
  \/ DoControlChannel
  \/ DoInterruptChannel
  \/ SelectAttachment

Spec == Init /\ [][Next]_vars

----------------------------------------------------------------------------
(* The data report builder on its own: SendDataReport applied to every     *)
(* reporting mode, with the camera and the extension delivering any number *)
(* of bytes to the reads of the bus.                                       *)

\* What a device may have for a read of the bus: from nothing (the camera
\* logic is disabled) up to a whole field of bytes 0, 1 or 255.
BusData == UNION {[1..n -> {0, 1, 255}] : n \in 0..MaxFieldSize}

\* The object after Reset with extension e selected, bound to channel 1 and
\* set to a reporting mode by the host.
ReportInit ==
  /\ file = "absent"
  /\ determinism = FALSE
  /\ \E mode \in ReportModes, e \in ExtensionNumbers :
       wm = [Reset([wm |-> [Constructed EXCEPT !.m_attachments = e],
                    file |-> file, determinism |-> determinism,
                    bus |-> FullBus, io |-> IoOk, sent |-> <<>>,
                    log |-> {}, ret |-> FALSE]).wm
             EXCEPT !.m_reporting_channel = 1, !.m_reporting_mode = mode]
  /\ sent = <<>>
  /\ log = {}
  /\ op = Op("Wiimote", "-")
  /\ hist = NoHist
  /\ pc = IdlePc
  /\ lock = "free"

DoSendDataReport ==
  \E camera \in BusData, extension \in BusData :
    LET bus == [camera |-> camera, extension |-> extension]
    IN Commit(SendDataReport([Call EXCEPT !.bus = bus]),
              Op("SendDataReport",
                 [mode |-> wm.m_reporting_mode, bus |-> bus]),
              hist)

ReportNext == DoSendDataReport

ReportSpec == ReportInit /\ [][ReportNext]_vars

----------------------------------------------------------------------------
(* The two threads.  The emulation thread runs Update and the transport    *)
(* thread runs ControlChannel and InterruptChannel; here a call is not one *)
(* step but a sequence of steps, one for each section of its code, and the *)
(* steps of the two threads interleave.  A thread waits only where the     *)
(* code takes the state lock: Update after its check of the channel, and   *)
(* SetRumble (called first thing by Reset) for its own duration.  op holds *)
(* the last step and the holder of the lock while it was taken.            *)

\* Output reports the host sends on the interrupt channel.
ConcReports ==
  {r \in OutputReports :
     \/ r.id = "ReportMode" /\ r.mode = ReportCore /\ ~r.continuous
     \/ r.id = "ReadData" /\ r.address = 0}

Step(c, name, holder, tick, transport, rpt, owner) ==
  /\ wm' = c.wm
  /\ file' = c.file
  /\ sent' = c.sent
  /\ log' = c.log
  /\ op' = Op(name, holder)
  /\ pc' = [tick |-> tick, transport |-> transport, rpt |-> rpt]
  /\ lock' = owner
  /\ UNCHANGED <<determinism, hist>>

\* Update: "if (0 == m_reporting_channel) return;".
TickCheckChannel ==
  /\ pc.tick = "idle"
  /\ Step(Call, "TickCheckChannel", lock,
          IF wm.m_reporting_channel = 0 THEN "idle" ELSE "lock",
          pc.transport, pc.rpt, lock)

\* Update: "const auto lock = GetStateLock();".
TickLock ==
  /\ pc.tick = "lock"
  /\ lock = "free"
  /\ Step(Call, "TickLock", "tick", "swap", pc.transport, pc.rpt, "tick")

\* Update: from StepDynamics to HandleExtensionSwap.
TickSwap ==
  /\ pc.tick = "swap"
  /\ Step(HandleExtensionSwap(UpdateButtonsStatus(StepDynamics(Call))),
          "TickSwap", lock, "edge", pc.transport, pc.rpt, lock)

\* Update: "if (ProcessExtensionPortEvent()) return;".
TickEdge ==
  /\ pc.tick = "edge"
  /\ LET c == ProcessExtensionPortEvent(Call)
     IN Step(c, "TickEdge", lock, IF c.ret THEN "idle" ELSE "read",
             pc.transport, pc.rpt, IF c.ret THEN "free" ELSE lock)

\* Update: "if (ProcessReadDataRequest()) return;".
TickRead ==
  /\ pc.tick = "read"
  /\ LET c == ProcessReadDataRequest(Call)
     IN Step(c, "TickRead", lock, IF c.ret THEN "idle" ELSE "send",
             pc.transport, pc.rpt, IF c.ret THEN "free" ELSE lock)

\* Update: "SendDataReport();" and the return.
TickSend ==
  /\ pc.tick = "send"
  /\ Step(SendDataReport(Call), "TickSend", lock, "idle", pc.transport,
          pc.rpt, "free")

\* ControlChannel is called with the reserved channel id: Reset begins.
TransportDisconnect ==
  /\ pc.transport = "idle"
  /\ Step(Call, "TransportDisconnect", lock, pc.tick, "rumble", NoReport,
          lock)

\* Reset: "SetRumble(false);", which takes the lock and gives it back.
ResetSetRumble ==
  /\ pc.transport = "rumble"
  /\ lock = "free"
  /\ Step(SetRumble(Call, FALSE), "ResetSetRumble", "transport", pc.tick,
          "reporting", NoReport, lock)

ResetStepReporting ==
  /\ pc.transport = "reporting"
  /\ Step(ResetReporting(Call), "ResetReporting", lock, pc.tick, "eeprom",
          NoReport, lock)

ResetStepEeprom ==
  /\ pc.transport = "eeprom"
  /\ Step(ResetEeprom(Call), "ResetEeprom", lock, pc.tick, "extensions",
          NoReport, lock)

ResetStepExtensions ==
  /\ pc.transport = "extensions"
  /\ Step(ResetExtensions(Call), "ResetExtensions", lock, pc.tick,
          "status_clear", NoReport, lock)

ResetStepStatusClear ==
  /\ pc.transport = "status_clear"
  /\ Step(ResetStatusClear(Call), "ResetStatusClear", lock, pc.tick,
          "status", NoReport, lock)

ResetStepStatus ==
  /\ pc.transport = "status"
  /\ Step(ResetStatus(Call), "ResetStatus", lock, pc.tick, "idle",
          NoReport, lock)

\* InterruptChannel: "m_reporting_channel = channel_id;".
TransportBind ==
  /\ pc.transport = "idle"
  /\ \E rpt \in ConcReports :
       Step([Call EXCEPT !.wm.m_reporting_channel = 1], "TransportBind",
            lock, pc.tick, "dispatch", rpt, lock)

\* InterruptChannel: "HIDOutputReport(...)".
TransportDispatch ==
  /\ pc.transport = "dispatch"
  /\ Step(HIDOutputReport(Call, pc.rpt), "TransportDispatch", lock,
          pc.tick, "idle", NoReport, lock)

ConcNext ==
  \/ TickCheckChannel
  \/ TickLock
  \/ TickSwap
  \/ TickEdge
  \/ TickRead
  \/ TickSend
  \/ TransportDisconnect
  \/ ResetSetRumble
  \/ ResetStepReporting
  \/ ResetStepEeprom
  \/ ResetStepExtensions
  \/ ResetStepStatusClear
  \/ ResetStepStatus
  \/ TransportBind
  \/ TransportDispatch
  \/ SelectAttachment

ConcSpec == Init /\ [][ConcNext]_vars

\* The steps of the tick that read or write the object, and the positions
\* of the tick between them.
TickSteps ==
  {"TickCheckChannel", "TickSwap", "TickEdge", "TickRead", "TickSend"}

TickInside == {"swap", "edge", "read", "send"}

\* The steps of the transport calls that read or write the object, and the
\* positions at which a transport call has applied part of its update.
TransportSteps ==
  {"ResetSetRumble", "ResetReporting", "ResetEeprom", "ResetExtensions",
   "ResetStatusClear", "ResetStatus", "TransportBind", "TransportDispatch"}

ResetInside == {"eeprom", "extensions", "status_clear", "status"}

----------------------------------------------------------------------------
(* The EEPROM and its file: resets (with the file I/O succeeding or        *)
(* failing), host writes into the EEPROM, and ticks.                       *)

\* Reset() is called.
EepromReset ==
  \E io \in [write_ok : BOOLEAN, read_ok : BOOLEAN] :
    Commit(Reset([Call EXCEPT !.io = io]), Op("Reset", io), hist)

\* ControlChannel is called with the reserved channel id.
EepromDisconnect ==
  \E io \in [write_ok : BOOLEAN, read_ok : BOOLEAN] :
    Commit(ControlChannel([Call EXCEPT !.io = io],
                          DOLPHIN_DISCONNET_CONTROL_CHANNEL, ZeroFrame),
           Op("ControlChannel", io), hist)

\* InterruptChannel is called with a write-memory output report.
EepromWriteData ==
  \E rpt \in WriteDataReports :
    Commit(InterruptChannel(Call, 1,
                            [size |-> 1, type |-> "HID_TYPE_DATA",
                             param |-> "HID_PARAM_OUTPUT", rpt |-> rpt]),
           Op("InterruptChannel", "WriteData"), hist)

EepromNext ==
  \/ EepromReset
  \/ EepromDisconnect
  \/ EepromWriteData
  \/ DoUpdate

EepromSpec == Init /\ [][EepromNext]_vars

\* The last call ran Reset.
RanReset == op.name \in {"Reset", "ControlChannel"}

\* The checksum byte of a calibration block is the checksum of the bytes
\* before it.
ChecksumOk(block) ==
  block[Len(block)] = Checksum(SubSeq(block, 1, Len(block) - 1))

\* Every calibration block of an EEPROM image has a good checksum.
ChecksumsOk(eeprom) ==
  /\ ChecksumOk(ir_calibration_1(eeprom))
  /\ ChecksumOk(ir_calibration_2(eeprom))
  /\ ChecksumOk(accel_calibration_1(eeprom))
  /\ ChecksumOk(accel_calibration_2(eeprom))

----------------------------------------------------------------------------
(* Vocabulary of the properties.                                           *)

\* The last call was a tick whose edge check found the port's connection
\* state different from the last-announced status.
EdgeTick == op.name = "Update" /\ "extension status change" \in log

\* The last call ran Reset: the constructor, Reset() itself, or
\* ControlChannel with the reserved channel id.
AfterReset ==
  \/ op.name \in {"Wiimote", "Reset"}
  \/ op.name = "ControlChannel" /\ op.what \in {"disconnect", "disconnect0"}

OtherInterleave(mode) ==
  IF mode = ReportInterleave1 THEN ReportInterleave2 ELSE ReportInterleave1

\* The read-data reply that services the next step of read request rr.
NextReadReply(rr) ==
  Report("read", "-", rr.address,
         IF rr.size < ReadChunk THEN rr.size ELSE ReadChunk)

----------------------------------------------------------------------------
(* C1 *)

\* C1 as stated: the first tick with a bound channel after the port's
\* connection state changed (in that tick's own extension swap, or in a
\* call made since the previous such tick) emits exactly one status report
\* and nothing else, and the reporting mode after it is Disabled.
C1_Original ==
  [][(op'.name = "Update"
      /\ wm.m_reporting_channel # 0
      /\ (IsDeviceConnected(wm') # IsDeviceConnected(wm) \/ hist.chg))
     => (sent' = <<StatusReport>>
         /\ wm'.m_reporting_mode = ReportDisabled)]_vars

\* C1 as amended: a tick whose own extension swap changes the port's
\* connection state emits exactly one status report, no data report and no
\* other report, and the reporting mode after it is Disabled.
C1_SwapTickSendsStatus ==
  [][(op'.name = "Update"
      /\ IsDeviceConnected(wm') # IsDeviceConnected(wm))
     => (sent' = <<StatusReport>>
         /\ wm'.m_reporting_mode = ReportDisabled)]_vars

C1_Witness ==
  /\ EdgeTick
  /\ IsDeviceConnected(wm)
  /\ sent = <<StatusReport>>
  /\ wm.m_reporting_mode = ReportDisabled

----------------------------------------------------------------------------
(* C2 *)

----------------------------------------------------------------------------
(* C3 *)

\* C3 as stated: once an edge has forced the mode to Disabled, no data
\* report is sent until the host sets a reporting mode, whatever else
\* (a tick, a status request, a read request, a reset) happens meanwhile.
C3_Original == hist.since_edge # "none" => "data" \notin Kinds(sent)

\* C3 as amended: once an edge has forced the mode to Disabled, the mode
\* stays Disabled and no data report is sent until the host sets a
\* reporting mode or the device is reset.
C3_DisabledUntilModeSetOrReset ==
  hist.since_edge = "edge"
    => /\ wm.m_reporting_mode = ReportDisabled
       /\ "data" \notin Kinds(sent)

C3_Witness ==
  /\ hist.since_edge = "edge"
  /\ op.name = "Update"
  /\ ~EdgeTick
  /\ wm.m_reporting_channel # 0
  /\ wm.m_read_request.size = 0
  /\ hist.latest_read.size = 0
  /\ sent = <<>>

----------------------------------------------------------------------------
(* C4 *)

\* C4: a tick that starts in an interleaved mode and emits a data report
\* sends exactly one report, built for the mode the tick started in, and
\* ends in the other interleaved mode.
C4_InterleaveAlternates ==
  [][(/\ op'.name = "Update"
      /\ wm.m_reporting_mode \in {ReportInterleave1, ReportInterleave2}
      /\ "data" \in Kinds(sent'))
     => (/\ sent' = <<[Report("data", wm.m_reporting_mode, 0, 0) EXCEPT
                          !.ir = Head(sent').ir]>>
         /\ wm'.m_reporting_mode = OtherInterleave(wm.m_reporting_mode))]_vars

C4_Witness ==
  /\ op.name = "Update"
  /\ Len(sent) = 1
  /\ Head(sent).kind = "data"
  /\ Head(sent).mode = ReportInterleave2
  /\ wm.m_reporting_mode = ReportInterleave1

----------------------------------------------------------------------------
(* C5 *)

\* C5 as stated: after construction and after every reset the reporting
\* mode is Disabled and the logical channel is 0.
C5_Original ==
  AfterReset
    => /\ wm.m_reporting_mode = ReportDisabled
       /\ wm.m_reporting_channel = 0

\* C5 as amended: after construction and after every reset the reporting
\* mode is Core with the continuous flag off, and the logical channel is 0.
C5_ResetStartsInCore ==
  AfterReset
    => /\ wm.m_reporting_mode = ReportCore
       /\ ~wm.m_reporting_continuous
       /\ wm.m_reporting_channel = 0

C5_Witness ==
  /\ op.name = "ControlChannel"
  /\ op.what = "disconnect"
  /\ hist.since_edge = "edge_reset"
  /\ wm.m_reporting_mode = ReportCore
  /\ wm.m_reporting_channel = 0

----------------------------------------------------------------------------
(* C6 *)

\* C6: a tick taken while the logical channel is 0 changes nothing of the
\* object or of the persisted file and sends no report.
C6_UnboundTickIsNoOp ==
  [][(op'.name = "Update" /\ wm.m_reporting_channel = 0)
     => (wm' = wm /\ file' = file /\ sent' = <<>> /\ log' = {})]_vars

C6_Witness ==
  /\ op.name = "Update"
  /\ wm.m_reporting_channel = 0
  /\ wm.m_attachments # wm.m_active_extension
  /\ wm.m_read_request.size > 0
  /\ wm.m_reporting_mode # ReportDisabled
  /\ sent = <<>>

----------------------------------------------------------------------------
(* C7 *)

\* C7: there is one pending read request and it is always what remains of
\* the read request the host issued last: the read replies sent since that
\* request was issued have delivered, in order, a prefix of its range and
\* nothing else, and the pending request is the rest of the range (nothing
\* once the whole range has been delivered).  A request issued while an
\* earlier one was pending therefore discards the earlier one's remainder.
C7_SecondReadReplacesFirst ==
  LET rr == wm.m_read_request
      lr == hist.latest_read
      d == hist.delivered
  IN /\ Len(d) <= lr.size
     /\ \A i \in 1..Len(d) : d[i] = lr.address + i - 1
     /\ rr.size = lr.size - Len(d)
     /\ (rr.size > 0 => rr.address = lr.address + Len(d))

C7_Witness ==
  /\ hist.discarded
  /\ op.name = "Update"
  /\ wm.m_read_request.size = 0
  /\ Len(hist.delivered) = hist.latest_read.size
  /\ hist.latest_read.size = MaxReadSize
  /\ hist.delivered[1] = hist.latest_read.address

----------------------------------------------------------------------------
(* C8 *)

\* C8 as stated: once an extension edge has occurred while a read request
\* had bytes remaining, no later tick sends a read reply for that request.
C8_Original == hist.read_cut => "read" \notin Kinds(sent)

\* C8 as amended: an extension edge does not invalidate the pending read
\* request.  A tick with a bound channel and a pending read request either
\* finds an edge, and then sends the status report alone and leaves the
\* request as it was, or finds none, and then sends exactly the reply that
\* services the next step of the request, whatever the reporting mode.
C8_ReadContinuesAfterEdge ==
  [][(/\ op'.name = "Update"
      /\ wm.m_reporting_channel # 0
      /\ wm.m_read_request.size > 0)
     => IF "extension status change" \in log'
          THEN /\ wm'.m_read_request = wm.m_read_request
               /\ sent' = <<StatusReport>>
          ELSE /\ sent' = <<NextReadReply(wm.m_read_request)>>
               /\ wm'.m_read_request.size < wm.m_read_request.size]_vars

C8_Witness ==
  /\ hist.read_cut
  /\ op.name = "Update"
  /\ wm.m_reporting_mode = ReportDisabled
  /\ "read" \in Kinds(sent)

----------------------------------------------------------------------------
(* C9 *)

\* C9 as stated: a zero-size frame delivered to ControlChannel or to
\* InterruptChannel, whatever its channel id, changes nothing of the object
\* or of the persisted file and sends no report.
C9_Original ==
  [][op'.what \in {"zero", "disconnect0"}
     => (wm' = wm /\ file' = file /\ sent' = <<>>)]_vars

\* C9 as amended: a zero-size frame delivered to InterruptChannel, or to
\* ControlChannel with a channel id other than the reserved one, is logged
\* and changes nothing and sends no report; a zero-size frame delivered to
\* ControlChannel with the reserved channel id resets the device.
C9_ZeroFrameIgnoredUnlessDisconnect ==
  [][/\ op'.what = "zero"
        => /\ wm' = wm
           /\ file' = file
           /\ sent' = <<>>
           /\ log' = {"zero sized data"}
     /\ op'.what = "disconnect0"
        => /\ wm'.m_reporting_channel = 0
           /\ wm'.m_reporting_mode = ReportCore
           /\ wm'.m_read_request = NoReadRequest
           /\ wm'.m_active_extension = wm.m_attachments]_vars

C9_Witness ==
  /\ op.name = "InterruptChannel"
  /\ op.what = "zero"
  /\ wm.m_reporting_channel = 1
  /\ wm.m_reporting_mode = ReportInterleave2
  /\ wm.m_read_request.size > 0
  /\ sent = <<>>

----------------------------------------------------------------------------
(* C10 *)

\* C10 as stated, in part: the reserved channel id is never stored as the
\* logical channel, whichever entry point a frame carrying it reaches.
C10_Original == wm.m_reporting_channel # DOLPHIN_DISCONNET_CONTROL_CHANNEL

\* C10 as amended: a frame delivered to ControlChannel with the reserved
\* channel id resets the device (logical channel 0, mode Core, no pending
\* read request, no report), so that a tick that follows changes nothing
\* and sends nothing; and no call of ControlChannel makes the reserved id
\* the logical channel.
C10_ControlDisconnectResets ==
  [][/\ (op'.name = "ControlChannel"
          /\ op'.what \in {"disconnect", "disconnect0"})
        => /\ wm'.m_reporting_channel = 0
           /\ wm'.m_reporting_mode = ReportCore
           /\ wm'.m_read_request = NoReadRequest
           /\ sent' = <<>>
     /\ (op.name = "ControlChannel"
          /\ op.what \in {"disconnect", "disconnect0"}
          /\ op'.name = "Update")
        => (wm' = wm /\ sent' = <<>>)
     /\ (op'.name = "ControlChannel"
          /\ wm'.m_reporting_channel = DOLPHIN_DISCONNET_CONTROL_CHANNEL)
        => wm.m_reporting_channel = DOLPHIN_DISCONNET_CONTROL_CHANNEL]_vars

C10_Witness ==
  /\ op.name = "ControlChannel"
  /\ op.what = "disconnect0"
  /\ hist.chg
  /\ IsDeviceConnected(wm)
  /\ wm.m_status.extension
  /\ wm.m_reporting_channel = 0

----------------------------------------------------------------------------
(* C11 *)

\* C11: a call of ControlChannel that dispatches an output report sends
\* exactly one handshake, after whatever the handler of the report has
\* sent (the status report for a status request, nothing for a mode or a
\* read request), and the handler has acted; a call of InterruptChannel
\* that dispatches an output report sends what the handler sends and no
\* handshake.
C11_HandshakeAfterControlReport ==
  [][/\ (op'.name = "ControlChannel"
          /\ op'.what \in {"ReportMode", "RequestStatus", "ReadData"})
        => /\ sent' = (IF op'.what = "RequestStatus"
                         THEN <<StatusReport>> ELSE <<>>)
                       \o <<HandshakeReport>>
           /\ (op'.what = "ReadData"
                 => wm'.m_read_request.size = MaxReadSize)
           /\ (op'.what = "ReportMode"
                 => wm'.m_read_request = NoReadRequest)
     /\ (op'.name = "InterruptChannel"
          /\ op'.what \in {"ReportMode", "RequestStatus", "ReadData"})
        => /\ sent' = (IF op'.what = "RequestStatus"
                         THEN <<StatusReport>> ELSE <<>>)
           /\ (op'.what = "ReadData"
                 => wm'.m_read_request.size = MaxReadSize)
           /\ (op'.what = "ReportMode"
                 => wm'.m_read_request = NoReadRequest)]_vars

C11_Witness ==
  /\ op.name = "ControlChannel"
  /\ op.what = "RequestStatus"
  /\ sent = <<StatusReport, HandshakeReport>>
  /\ wm.m_reporting_channel = 1

----------------------------------------------------------------------------
(* C12 *)

----------------------------------------------------------------------------
(* C13 *)

\* The number of bytes the bus delivered to a read of "size" bytes from a
\* device that has "data".
BytesRead(data, size) == IF Len(data) < size THEN Len(data) ELSE size

\* C13: SendDataReport in a mode other than Disabled emits one report with
\* the camera and extension fields of the size the mode prescribes,
\* however many bytes the reads of the bus returned; a field whose read
\* returned N bytes, N less than its size (N = 0 when the port holds no
\* extension or the camera delivers nothing), has its trailing size - N
\* bytes equal to 0xFF, and a field read in full holds the bytes read.
C13_ShortReadFilledWithFF ==
  (op.name = "SendDataReport" /\ op.what.mode # ReportDisabled)
    => LET mode == op.what.mode
           ir_size == GetIRDataSize(mode)
           ext_size == GetExtDataSize(mode)
           ir_n == BytesRead(op.what.bus.camera, ir_size)
           ext_n == IF IsDeviceConnected(wm)
                      THEN BytesRead(op.what.bus.extension, ext_size)
                      ELSE 0
       IN /\ Len(sent) = 1
          /\ Head(sent).kind = "data"
          /\ Head(sent).mode = mode
          /\ Len(Head(sent).ir) = ir_size
          /\ Len(Head(sent).ext) = ext_size
          /\ \A i \in (ir_n + 1)..ir_size : Head(sent).ir[i] = 255
          /\ \A i \in (ext_n + 1)..ext_size : Head(sent).ext[i] = 255
          /\ (ir_n = ir_size
                => Head(sent).ir = SubSeq(op.what.bus.camera, 1, ir_size))
          /\ (ext_n = ext_size
                => Head(sent).ext = SubSeq(op.what.bus.extension, 1, ext_size))

C13_Witness ==
  /\ op.name = "SendDataReport"
  /\ op.what.mode = ReportInterleave1
  /\ op.what.bus.camera = <<1>>
  /\ Head(sent).ir = Fill(MaxFieldSize)
  /\ wm.m_reporting_mode = ReportInterleave2

----------------------------------------------------------------------------
(* C14 *)

\* C14 as stated: every step of a tick and of a transport call that reads
\* or writes the object is taken while its thread holds the state lock,
\* and the tick is never inside its locked section while a transport call
\* has applied only part of its update.
C14_Original ==
  /\ (op.name \in TickSteps => op.what = "tick")
  /\ (op.name \in TransportSteps => op.what = "transport")
  /\ ~(pc.tick \in TickInside /\ pc.transport \in ResetInside \cup {"dispatch"})

----------------------------------------------------------------------------
(* C15 *)

\* C15 as stated: a tick never runs while a Reset started by a disconnect
\* has applied only part of its assignments, and no step of a tick sends a
\* report when the Reset has set the logical channel to 0.
C15_Original ==
  /\ ~(pc.tick \in TickInside /\ pc.transport \in ResetInside)
  /\ ~(/\ op.name \in {"TickEdge", "TickRead", "TickSend"}
        /\ sent # <<>>
        /\ wm.m_reporting_channel = 0)

----------------------------------------------------------------------------
(* C16 *)

\* C16 as stated, in part: the file changes only inside Reset(), never
\* inside a tick or a call of a transport entry point.
C16_Original == [][file' # file => op'.name = "Reset"]_vars

\* C16 as amended: the file changes only in a call that runs Reset
\* (Reset() itself or ControlChannel with the reserved channel id) and
\* only when the dirty flag was set.  Such a call writes the file if and
\* only if the flag was set, the file then holding the EEPROM as it was,
\* and leaves the flag clear; when the flag was not set the file is left
\* as it was, so default data loaded because the file was absent is not
\* written back.
C16_FileWrittenOnlyByDirtyReset ==
  [][/\ file' # file
        => (op'.name \in {"Reset", "ControlChannel"} /\ wm.m_eeprom_dirty)
     /\ op'.name \in {"Reset", "ControlChannel"}
        => /\ ~wm'.m_eeprom_dirty
           /\ ("Wrote EEPROM" \in log' <=> wm.m_eeprom_dirty)
           /\ ((wm.m_eeprom_dirty /\ op'.what.write_ok)
                 => file' = wm.m_eeprom)
           /\ (~wm.m_eeprom_dirty => file' = file)]_vars

C16_Witness ==
  /\ op.name = "ControlChannel"
  /\ "Wrote EEPROM" \in log
  /\ op.what.write_ok
  /\ file # "absent"
  /\ file[1] = 255
  /\ ~wm.m_eeprom_dirty

----------------------------------------------------------------------------
(* C17 *)

\* C17 as stated: after a call that ran Reset with the file absent, or
\* present but impossible to open or read, the EEPROM holds the default
\* calibration blocks, with good checksums.
C17_Original ==
  (RanReset /\ (file = "absent" \/ ~op.what.read_ok))
    => (wm.m_eeprom = DefaultEeprom /\ ChecksumsOk(wm.m_eeprom))

----------------------------------------------------------------------------
(* C18 *)

\* C18: a call that runs Reset with the dirty flag set, the file I/O
\* succeeding, leaves the EEPROM byte for byte as it was before the call
\* (and the file equal to it); and a call that runs Reset right after
\* another, the file I/O of both succeeding, leaves the EEPROM as it was.
C18_DirtyResetRoundTrips ==
  [][(op'.name \in {"Reset", "ControlChannel"} /\ op'.what = IoOk)
     => /\ wm.m_eeprom_dirty
             => (wm'.m_eeprom = wm.m_eeprom /\ file' = wm.m_eeprom)
        /\ (RanReset /\ op.what = IoOk) => wm'.m_eeprom = wm.m_eeprom]_vars

C18_Witness ==
  /\ op.name = "Reset"
  /\ op.what = IoOk
  /\ "Wrote EEPROM" \in log
  /\ wm.m_eeprom[11] = 255
  /\ wm.m_eeprom # DefaultEeprom
  /\ file = wm.m_eeprom

----------------------------------------------------------------------------
(* C19 *)

\* The two copies of each calibration block are equal.
CopiesEqual(eeprom) ==
  /\ ir_calibration_1(eeprom) = ir_calibration_2(eeprom)
  /\ accel_calibration_1(eeprom) = accel_calibration_2(eeprom)

\* C19 as stated: the calibration blocks of the file, whenever there is
\* one, have good checksums, and so have the blocks loaded as defaults,
\* whose two copies are equal.
C19_Original ==
  /\ file # "absent" => ChecksumsOk(file)
  /\ (RanReset /\ file = "absent")
       => (ChecksumsOk(wm.m_eeprom) /\ CopiesEqual(wm.m_eeprom))

\* C19 as amended: the blocks loaded as defaults (by a call that runs
\* Reset and finds no file) have good checksums and equal copies; a file
\* written and read back by such a call holds the bytes of the EEPROM,
\* whatever their checksums.
C19_DefaultsHaveGoodChecksums ==
  /\ (RanReset /\ file = "absent")
       => /\ ChecksumsOk(wm.m_eeprom)
          /\ CopiesEqual(wm.m_eeprom)
          /\ ir_calibration_1(wm.m_eeprom)[1] = IR_LOW_X % 256
          /\ accel_calibration_1(wm.m_eeprom)[5] = ACCEL_ONE_G
  /\ (RanReset /\ op.what = IoOk /\ "Wrote EEPROM" \in log)
       => file = wm.m_eeprom

C19_Witness ==
  /\ op.name = "Reset"
  /\ file = "absent"
  /\ wm.m_eeprom = DefaultEeprom
  /\ ir_calibration_2(wm.m_eeprom)[11] # 0
  /\ accel_calibration_2(wm.m_eeprom)[10] # 0

----------------------------------------------------------------------------
(* Orientation: IsSideways, IsUpright and GetOrientation over the          *)
(* orientation settings and the hotkey modifiers.  Angles are counted in   *)
(* quarter turns (TAU / 4) and matrices are rows of integers.              *)

\* Cosine and sine of q quarter turns.
Cos(q) == CASE q % 4 = 0 -> 1 [] q % 4 = 2 -> -1 [] OTHER -> 0

Sin(q) == CASE q % 4 = 1 -> 1 [] q % 4 = 3 -> -1 [] OTHER -> 0

\* Common::Matrix33::Identity.
Identity == <<<<1, 0, 0>>, <<0, 1, 0>>, <<0, 0, 1>>>>

\* Common::Matrix33::RotateX.
RotateX(q) ==
  <<<<1, 0, 0>>, <<0, Cos(q), -Sin(q)>>, <<0, Sin(q), Cos(q)>>>>

\* Common::Matrix33::RotateZ.
RotateZ(q) ==
  <<<<Cos(q), -Sin(q), 0>>, <<Sin(q), Cos(q), 0>>, <<0, 0, 1>>>>

\* Common::Matrix33 operator*.
Multiply(a, b) ==
  [i \in 1..3 |->
     [j \in 1..3 |-> a[i][1] * b[1][j] + a[i][2] * b[2][j]
                      + a[i][3] * b[3][j]]]

\* A bool used as a factor.
BoolToInt(b) == IF b THEN 1 ELSE 0

\* operator^ on bools.
Xor(a, b) == a # b

\* Wiimote::IsSideways; getSettingsModifier()[n] is m_hotkeys[n + 1].
IsSideways(w) == Xor(Xor(w.m_sideways_setting, w.m_hotkeys[1]), w.m_hotkeys[3])

\* Wiimote::IsUpright.
IsUpright(w) == Xor(Xor(w.m_upright_setting, w.m_hotkeys[2]), w.m_hotkeys[4])

\* An orientation that multiplies the two rotations in the opposite order.
GetOrientationXZ(w) ==
  Multiply(RotateX(1 * BoolToInt(IsUpright(w))),
           RotateZ(-1 * BoolToInt(IsSideways(w))))

\* Wiimote::GetOrientation.
GetOrientation(w) ==
  Multiply(RotateZ(-1 * BoolToInt(IsSideways(w))),
           RotateX(1 * BoolToInt(IsUpright(w))))

\* The orientation settings and the state of the four hotkeys.
OrientInit ==
  /\ wm \in [m_sideways_setting : BOOLEAN, m_upright_setting : BOOLEAN,
             m_hotkeys : [1..4 -> BOOLEAN]]
  /\ file = "absent"
  /\ determinism = FALSE
  /\ sent = <<>>
  /\ log = {}
  /\ op = Op("Wiimote", "-")
  /\ hist = NoHist
  /\ pc = IdlePc
  /\ lock = "free"

\* GetOrientation is called.
DoGetOrientation ==
  /\ op' = Op("GetOrientation", GetOrientation(wm))
  /\ UNCHANGED <<wm, file, determinism, sent, log, hist, pc, lock>>

\* m_hotkeys->GetState() finds the hotkeys in a new state.
DoHotkeys ==
  \E m \in [1..4 -> BOOLEAN] :
    /\ m # wm.m_hotkeys
    /\ wm' = [wm EXCEPT !.m_hotkeys = m]
    /\ op' = Op("GetState", "-")
    /\ UNCHANGED <<file, determinism, sent, log, hist, pc, lock>>

\* The user changes the "Sideways Wii Remote" or the "Upright Wii Remote"
\* option.
DoChangeSetting ==
  \E s \in BOOLEAN, u \in BOOLEAN :
    /\ <<s, u>> # <<wm.m_sideways_setting, wm.m_upright_setting>>
    /\ wm' = [wm EXCEPT !.m_sideways_setting = s, !.m_upright_setting = u]
    /\ op' = Op("AddSetting", "-")
    /\ UNCHANGED <<file, determinism, sent, log, hist, pc, lock>>

OrientNext == DoGetOrientation \/ DoHotkeys \/ DoChangeSetting

OrientSpec == OrientInit /\ [][OrientNext]_vars

----------------------------------------------------------------------------
(* C20 *)

\* C20: the matrix GetOrientation returns is the identity when the device
\* is neither sideways nor upright, the quarter turn about Z (X to -Y)
\* when it is only sideways, the quarter turn about X (Y to Z) when it is
\* only upright, and when it is both the product of the quarter turn
\* about Z by the quarter turn about X, in that order, which is not the
\* product in the opposite order.
C20_OrientationComposition ==
  op.name = "GetOrientation"
    => LET s == IsSideways(wm)
           u == IsUpright(wm)
           z == <<<<0, 1, 0>>, <<-1, 0, 0>>, <<0, 0, 1>>>>
           x == <<<<1, 0, 0>>, <<0, 0, -1>>, <<0, 1, 0>>>>
       IN /\ (~s /\ ~u) => op.what = Identity
          /\ (s /\ ~u) => op.what = z
          /\ (~s /\ u) => op.what = x
          /\ (s /\ u) => /\ op.what = <<<<0, 0, -1>>, <<-1, 0, 0>>, <<0, 1, 0>>>>
                         /\ op.what = Multiply(z, x)
                         /\ op.what # Multiply(x, z)
          /\ Multiply(z, Multiply(z, Multiply(z, z))) = Identity
          /\ Multiply(x, Multiply(x, Multiply(x, x))) = Identity

C20_Witness ==
  /\ op.name = "GetOrientation"
  /\ IsSideways(wm)
  /\ IsUpright(wm)
  /\ ~wm.m_sideways_setting
  /\ wm.m_hotkeys[2]
  /\ op.what # Identity

----------------------------------------------------------------------------
(* The tick in every reporting mode, with and without determinism, with    *)
(* the report supplied by the inputs, by movie playback or by netplay.  op *)
(* holds, for a tick, the sources of the report, the number of refreshes   *)
(* of the button snapshot and the calls made to the sub-devices.           *)

\* The object after Reset with extension e selected and the motion adapter
\* setting s, bound to channel 1 and set to a reporting mode by the host.
TickInit ==
  /\ file = "absent"
  /\ determinism \in BOOLEAN
  /\ \E mode \in ReportModes, e \in ExtensionNumbers, s \in BOOLEAN :
       wm = [Reset([wm |-> [Constructed EXCEPT !.m_attachments = e,
                                               !.m_motion_plus_setting = s],
                    file |-> file, determinism |-> determinism,
                    bus |-> FullBus, io |-> IoOk, sent |-> <<>>,
                    log |-> {}, ret |-> FALSE]).wm
             EXCEPT !.m_reporting_channel = 1, !.m_reporting_mode = mode]
  /\ sent = <<>>
  /\ log = {}
  /\ op = Op("Wiimote", "-")
  /\ hist = NoHist
  /\ pc = IdlePc
  /\ lock = "free"

\* Update is called.
TickUpdate ==
  \E movie \in BOOLEAN, netplay \in BOOLEAN, core_data \in BOOLEAN :
    /\ (~movie /\ ~netplay) => ~core_data
    /\ LET c == Update([Call EXCEPT !.movie = movie, !.netplay = netplay,
                                    !.core_data = core_data])
       IN Commit(c,
                 Op("Update",
                    [movie |-> movie, netplay |-> netplay,
                     core_data |-> core_data, polls |-> c.polls,
                     queries |-> c.queries]),
                 hist)

\* InterruptChannel is called with a read-memory output report.
TickReadData ==
  \E rpt \in {r \in OutputReports : r.id = "ReadData"} :
    Commit(InterruptChannel(Call, 1,
                            [size |-> 1, type |-> "HID_TYPE_DATA",
                             param |-> "HID_PARAM_OUTPUT", rpt |-> rpt]),
           Op("InterruptChannel", "ReadData"), hist)

\* InterruptChannel is called with a mode-setting output report.
TickReportMode ==
  \E mode \in ReportModes \ {ReportDisabled}, continuous \in BOOLEAN :
    Commit(InterruptChannel(Call, 1,
                            [size |-> 1, type |-> "HID_TYPE_DATA",
                             param |-> "HID_PARAM_OUTPUT",
                             rpt |-> [id |-> "ReportMode", mode |-> mode,
                                      continuous |-> continuous,
                                      address |-> 0, size |-> 0]]),
           Op("InterruptChannel", "ReportMode"), hist)

TickNext ==
  \/ TickUpdate
  \/ TickReadData
  \/ TickReportMode
  \/ SelectAttachment
  \/ ToggleMotionPlus
  \/ ChangeButtons

TickSpec == TickInit /\ [][TickNext]_vars

----------------------------------------------------------------------------
(* C21 *)

\* C21: a tick that emits a data report emits exactly one report, and that
\* report has the mode the tick started in (for an interleaved mode, the
\* mode before the flip) and the camera and extension fields of the sizes
\* that mode has.
C21_DataReportMatchesModeAtStart ==
  [][(op'.name = "Update" /\ "data" \in Kinds(sent'))
     => /\ Len(sent') = 1
        /\ Head(sent').mode = wm.m_reporting_mode
        /\ Len(Head(sent').ir) = GetIRDataSize(wm.m_reporting_mode)
        /\ Len(Head(sent').ext) = GetExtDataSize(wm.m_reporting_mode)
        /\ (Head(sent').ir # <<>>) <=> HasIR(wm.m_reporting_mode)
        /\ (Head(sent').ext # <<>>) <=> HasExt(wm.m_reporting_mode)]_vars

C21_Witness ==
  /\ op.name = "Update"
  /\ Len(sent) = 1
  /\ Head(sent).kind = "data"
  /\ Head(sent).mode = ReportCoreAccelIR10Ext6
  /\ Len(Head(sent).ir) = MaxFieldSize - 1
  /\ Len(Head(sent).ext) = MaxFieldSize - 1
  /\ wm.m_reporting_mode = ReportCoreAccelIR10Ext6

----------------------------------------------------------------------------
(* C22 *)

\* The port's connection state after the extension swap of a tick differs
\* from the last-announced status.
EdgePending(w) == (w.m_attachments # "NONE") # w.m_status.extension

\* C22: a tick with a bound channel emits at most one report: the status
\* report alone when an extension edge is pending after the extension
\* swap, the read request then being left as it was; else one read reply
\* alone when a read request is pending; else nothing but a data report.
C22_ReportPriority ==
  [][(op'.name = "Update" /\ wm.m_reporting_channel # 0)
     => /\ Len(sent') <= 1
        /\ EdgePending(wm)
             => /\ sent' = <<StatusReport>>
                /\ wm'.m_read_request = wm.m_read_request
        /\ (~EdgePending(wm) /\ wm.m_read_request.size > 0)
             => /\ sent' = <<NextReadReply(wm.m_read_request)>>
                /\ wm'.m_read_request.size < wm.m_read_request.size
        /\ (~EdgePending(wm) /\ wm.m_read_request.size = 0)
             => /\ Kinds(sent') \subseteq {"data"}
                /\ (sent' = <<>>) <=> (wm.m_reporting_mode = ReportDisabled)]_vars

C22_Witness ==
  /\ op.name = "Update"
  /\ sent = <<StatusReport>>
  /\ wm.m_read_request.size = MaxReadSize
  /\ wm.m_reporting_mode = ReportDisabled

----------------------------------------------------------------------------
(* C23 *)

\* The configured extension is the attached one and the last-announced
\* status is the port's connection state.
Settled(w) ==
  /\ w.m_active_extension = w.m_attachments
  /\ w.m_status.extension = IsDeviceConnected(w)

\* C23: a call that runs Reset ends with the configured extension attached
\* and the last-announced status equal to the port's connection state; the
\* transport calls that bind a channel keep it so; and a tick with a bound
\* channel that starts so emits no status report and does not force the
\* mode to Disabled.
C23_NoEdgeAfterReset ==
  [][/\ (\/ op'.name = "Reset"
         \/ (op'.name = "ControlChannel"
               /\ op'.what \in {"disconnect", "disconnect0"}))
        => Settled(wm')
     /\ (Settled(wm) /\ op'.name \in {"ControlChannel", "InterruptChannel"})
        => Settled(wm')
     /\ (Settled(wm) /\ op'.name = "Update" /\ wm.m_reporting_channel # 0)
        => /\ "status" \notin Kinds(sent')
           /\ "extension status change" \notin log'
           /\ wm.m_reporting_mode # ReportDisabled
                => wm'.m_reporting_mode # ReportDisabled]_vars

C23_Witness ==
  /\ op.name = "Update"
  /\ Kinds(sent) = {"data"}
  /\ wm.m_active_extension = "NUNCHUK"
  /\ wm.m_status.extension
  /\ wm.m_reporting_mode = ReportCore
  /\ hist.since_edge = "none"
  /\ wm.m_dynamics = 1

----------------------------------------------------------------------------
(* The service of a read request: ticks with a bound channel while a read  *)
(* request is pending, the user changing the extension in between; no      *)
(* transport call arrives.  Update is called for every poll of the         *)
(* emulated controller, far more often than the user changes the           *)
(* extension: ticks that find no extension edge keep occurring.  A tick    *)
(* with a bound channel is always enabled and always changes the state,    *)
(* so the fairness that WF_vars(DoUpdate) and SF_vars(UnpreemptedUpdate)   *)
(* state is here written without their enabling conditions.                *)

\* The object after Reset with extension e selected, bound to channel 1,
\* set to a reporting mode and given a read request by the host.
LiveInit ==
  /\ file = "absent"
  /\ determinism = FALSE
  /\ \E mode \in ReportModes, e \in ExtensionNumbers,
        rr \in [address : ReadBases, size : 1..MaxReadSize] :
       /\ wm = [Reset([wm |-> [Constructed EXCEPT !.m_attachments = e],
                       file |-> file, determinism |-> determinism,
                       bus |-> FullBus, io |-> IoOk, sent |-> <<>>,
                       log |-> {}, ret |-> FALSE]).wm
                EXCEPT !.m_reporting_channel = 1,
                       !.m_reporting_mode = mode,
                       !.m_read_request = rr]
       /\ hist = [NoHist EXCEPT !.latest_read = rr]
  /\ sent = <<>>
  /\ log = {}
  /\ op = Op("Wiimote", "-")
  /\ pc = IdlePc
  /\ lock = "free"

LiveNext == DoUpdate \/ SelectAttachment

\* A tick that no extension status report pre-empts.
UnpreemptedUpdate == DoUpdate /\ "extension status change" \notin log'

LiveSpec ==
  /\ LiveInit
  /\ [][LiveNext]_vars
  /\ []<><<UnpreemptedUpdate>>_vars

----------------------------------------------------------------------------
(* C24 *)

\* The read request is exhausted and the last tick sent a data report,
\* unless the mode is Disabled.
DataResumed ==
  /\ wm.m_read_request.size = 0
  /\ op.name = "Update"
  /\ wm.m_reporting_mode = ReportDisabled \/ Kinds(sent) = {"data"}

\* C24: while ticks that no status report pre-empts keep occurring, a
\* pending read request is eventually exhausted, and a tick then sends a
\* data report unless the mode is Disabled.
C24_ReadRequestExhausted ==
  /\ (wm.m_read_request.size > 0) ~> (wm.m_read_request.size = 0)
  /\ (wm.m_read_request.size > 0) ~> DataResumed

C24_Witness ==
  /\ op.name = "Update"
  /\ hist.latest_read.size = MaxReadSize
  /\ Len(hist.delivered) = MaxReadSize
  /\ wm.m_read_request.size = 0
  /\ Kinds(sent) = {"data"}

----------------------------------------------------------------------------
(* C25 *)

\* C25: a tick changes the reporting mode only by forcing it to Disabled
\* at an extension edge or by flipping the interleaved mode when it emits
\* a data report: a tick that emits a read reply, or that starts in the
\* Disabled mode, leaves the mode as it was, a tick that emits a status
\* report leaves it Disabled, a data report in another mode leaves the
\* mode as it was, and no tick changes the continuous flag.
C25_TickChangesModeTwoWays ==
  [][op'.name = "Update"
     => /\ wm'.m_reporting_mode # wm.m_reporting_mode
             => \/ /\ "extension status change" \in log'
                   /\ wm'.m_reporting_mode = ReportDisabled
                \/ /\ Kinds(sent') = {"data"}
                   /\ wm.m_reporting_mode \in {ReportInterleave1, ReportInterleave2}
                   /\ wm'.m_reporting_mode
                        = OtherInterleave(wm.m_reporting_mode)
        /\ "read" \in Kinds(sent')
             => wm'.m_reporting_mode = wm.m_reporting_mode
        /\ "status" \in Kinds(sent')
             => wm'.m_reporting_mode = ReportDisabled
        /\ wm.m_reporting_mode = ReportDisabled
             => wm'.m_reporting_mode = ReportDisabled
        /\ ("data" \in Kinds(sent')
              /\ wm.m_reporting_mode \notin {ReportInterleave1, ReportInterleave2})
             => wm'.m_reporting_mode = wm.m_reporting_mode
        /\ wm'.m_reporting_continuous = wm.m_reporting_continuous]_vars

C25_Witness ==
  /\ op.name = "Update"
  /\ Kinds(sent) = {"read"}
  /\ wm.m_reporting_mode = ReportInterleave2
  /\ wm.m_reporting_continuous

----------------------------------------------------------------------------
(* C26 *)

\* C26: a tick with a bound channel refreshes the button snapshot from the
\* bindings at most once: exactly once when determinism is not wanted
\* (in Update); when determinism is wanted, once if and only if the tick
\* emits a data report whose mode has core data and which movie playback
\* does not supply, and a tick that emits no data report then leaves the
\* snapshot as it was.
C26_ButtonsRefreshedOncePerTick ==
  [][(op'.name = "Update" /\ wm.m_reporting_channel # 0)
     => /\ op'.what.polls <= 1
        /\ ~determinism => op'.what.polls = 1
        /\ determinism
             => /\ op'.what.polls = 1
                     <=> /\ "data" \in Kinds(sent')
                         /\ HasCore(wm.m_reporting_mode)
                         /\ ~op'.what.movie
                /\ "data" \notin Kinds(sent')
                     => wm'.m_status.buttons = wm.m_status.buttons]_vars

C26_Witness ==
  /\ op.name = "Update"
  /\ determinism
  /\ Kinds(sent) = {"status"}
  /\ op.what.polls = 0
  /\ wm.m_buttons
  /\ ~wm.m_status.buttons

----------------------------------------------------------------------------
(* C27 *)

\* The number of calls q in the sequence of calls s, and the position of
\* the first.
Calls(s, q) == Cardinality({i \in 1..Len(s) : s[i] = q})

FirstCall(s, q) ==
  CHOOSE i \in 1..Len(s) : s[i] = q /\ \A j \in 1..(i - 1) : s[j] # q

\* C27: a tick reads the bus at the camera's address once if it emits a
\* data report, not supplied by movie playback, whose mode has a camera
\* field, and else not at all; it reads the bus at the extension's address
\* once if that report's mode has an extension field, and else not at all,
\* the motion adapter, when attached, preparing its input once before
\* that read; and the camera is read before the extension.
C27_SubDevicesQueriedInOrder ==
  [][op'.name = "Update"
     => LET q == op'.what.queries
            mode == wm.m_reporting_mode
            built == "data" \in Kinds(sent') /\ ~op'.what.movie
            camera == built /\ HasIR(mode)
            extension == built /\ HasExt(mode)
            prepare == extension /\ wm'.m_is_motion_plus_attached
        IN /\ Calls(q, "BusRead camera") = BoolToInt(camera)
           /\ Calls(q, "BusRead extension") = BoolToInt(extension)
           /\ Calls(q, "m_motion_plus.PrepareInput") = BoolToInt(prepare)
           /\ (camera /\ extension)
                => FirstCall(q, "BusRead camera")
                     < FirstCall(q, "BusRead extension")
           /\ prepare
                => FirstCall(q, "m_motion_plus.PrepareInput")
                     < FirstCall(q, "BusRead extension")]_vars

C27_Witness ==
  /\ op.name = "Update"
  /\ Kinds(sent) = {"data"}
  /\ Head(sent).mode = ReportCoreAccelIR10Ext6
  /\ wm.m_is_motion_plus_attached
  /\ Calls(op.what.queries, "BusRead camera") = 1
  /\ Calls(op.what.queries, "BusRead extension") = 1
  /\ Calls(op.what.queries, "m_motion_plus.PrepareInput") = 1

----------------------------------------------------------------------------
(* C28 *)

\* C28: when the read of the bus for the camera field or for the extension
\* field returns a count other than the size of the field, every byte of
\* that field in the report is 0xFF, the leading bytes the device did
\* deliver included.
C28_WholeFieldFilledOnShortfall ==
  (op.name = "SendDataReport" /\ op.what.mode # ReportDisabled)
    => LET mode == op.what.mode
           ir_size == GetIRDataSize(mode)
           ext_size == GetExtDataSize(mode)
           ir_n == BytesRead(op.what.bus.camera, ir_size)
           ext_n == IF IsDeviceConnected(wm)
                      THEN BytesRead(op.what.bus.extension, ext_size)
                      ELSE 0
       IN /\ (HasIR(mode) /\ ir_n # ir_size)
               => /\ Len(Head(sent).ir) = ir_size
                  /\ \A i \in 1..ir_size : Head(sent).ir[i] = 255
          /\ (HasExt(mode) /\ ext_n # ext_size)
               => /\ Len(Head(sent).ext) = ext_size
                  /\ \A i \in 1..ext_size : Head(sent).ext[i] = 255

C28_Witness ==
  /\ op.name = "SendDataReport"
  /\ op.what.mode = ReportExt21
  /\ IsDeviceConnected(wm)
  /\ Len(op.what.bus.extension) = MaxFieldSize - 1
  /\ op.what.bus.extension[1] = 1
  /\ Head(sent).ext = Fill(MaxFieldSize)

----------------------------------------------------------------------------
(* Reset as a function of the state it is called in: Reset applied to the  *)
(* object in any state, with any file, and applied again to the result.    *)

\* States of the object: every member takes values on both sides of the
\* value Reset gives it.
PreResetStates ==
  [m_reporting_channel : {0, 1},
   m_reporting_mode : {ReportDisabled, ReportCore, ReportInterleave2},
   m_reporting_continuous : BOOLEAN,
   m_speaker_mute : BOOLEAN,
   m_rumble : BOOLEAN,
   m_eeprom : {ZeroEeprom, DefaultEeprom, [DefaultEeprom EXCEPT ![1] = 255]},
   m_eeprom_dirty : BOOLEAN,
   m_read_request : {NoReadRequest, [address |-> 8, size |-> MaxReadSize]},
   m_i2c_bus : {{}, {"speaker", "camera", "extension"}},
   m_is_motion_plus_attached : BOOLEAN,
   m_active_extension : ExtensionNumbers,
   m_status : [extension : BOOLEAN, buttons : BOOLEAN],
   m_dynamics : 0..(DynPeriod - 1),
   m_attachments : ExtensionNumbers,
   m_motion_plus_setting : BOOLEAN,
   m_buttons : {FALSE}]

ResetInit ==
  /\ wm \in PreResetStates
  /\ file \in {"absent", DefaultEeprom}
  /\ determinism = FALSE
  /\ sent = <<>>
  /\ log = {}
  /\ op = Op("Wiimote", IoOk)
  /\ hist = NoHist
  /\ pc = IdlePc
  /\ lock = "free"

ResetNext == EepromReset

ResetSpec == ResetInit /\ [][ResetNext]_vars

----------------------------------------------------------------------------
(* C29 *)

\* The members C29 lists.
Reinitialized(w) ==
  <<w.m_reporting_channel, w.m_reporting_mode, w.m_reporting_continuous,
    w.m_speaker_mute, w.m_read_request, w.m_i2c_bus, w.m_status,
    w.m_dynamics>>

\* Reset applied to the object as constructed, with the configuration of w
\* and the file f.
ResetOfConstructed(w, f) ==
  Reset([wm |-> [Constructed EXCEPT
                   !.m_attachments = w.m_attachments,
                   !.m_motion_plus_setting = w.m_motion_plus_setting],
         file |-> f, determinism |-> FALSE, bus |-> FullBus, io |-> IoOk,
         sent |-> <<>>, log |-> {}, ret |-> FALSE])

\* C29: after Reset the logical channel, the reporting mode, the continuous
\* flag, the speaker mute, the read request, the bus registrations, the
\* last-announced status and the dynamics are those Reset gives the object
\* as constructed with the same configured extension, whatever the state
\* before; and a Reset that follows a Reset, the file I/O faring the same,
\* leaves the object and the file as they were.
C29_ResetReinitializes ==
  [][op'.name = "Reset"
     => /\ Reinitialized(wm') = Reinitialized(ResetOfConstructed(wm, file).wm)
        /\ wm'.m_reporting_channel = 0
        /\ wm'.m_read_request = NoReadRequest
        /\ (op.name = "Reset" /\ op'.what = op.what)
             => (wm' = wm /\ file' = file)]_vars

C29_Witness ==
  /\ op.name = "Reset"
  /\ op.what = IoOk
  /\ "Wrote EEPROM" \in log
  /\ wm.m_eeprom[1] = 255
  /\ wm.m_status.extension
  /\ wm.m_reporting_mode = ReportCore

----------------------------------------------------------------------------
(* ContextSensitiveControls::run_mod.  The state is the camera lock and    *)
(* the part of the game's memory run_mod reads: the object list, an array  *)
(* of entries of which each names an entity and the id of the next entry.  *)

\* The iterations of the loop over the object list (1024 in the code).
MaxWalk == 2

\* The ids of the entries of the object list; the walk starts at entry 0.
ListIds == {0, 1, 2}

\* What the code compares the entity's fields against: the accept function
\* of the motion puzzle and of the rotary puzzle, and the ship radio.
motion_vtf_address == "motion_vtf_address"
rotary_vtf_address == "motion_vtf_address + 0x38"
ShipRadio == "0x0c180263"

\* Entities: entity_flags (read32(entity + 0x38)), the accept function
\* (read32(read32(entity) + 0xc)), puzzle_state (read32(entity + 0x14c))
\* and the word at entity + 0xC.
Entities ==
  [entity_flags : {536870912, 538968064, 540016640, 0},
   vft_func : {motion_vtf_address},
   puzzle_state : {3},
   editor_id : {"other"}]
  \cup [entity_flags : {536870912},
        vft_func : {motion_vtf_address},
        puzzle_state : {0},
        editor_id : {"other"}]
  \cup [entity_flags : {536870912},
        vft_func : {motion_vtf_address},
        puzzle_state : {1},
        editor_id : {ShipRadio}]
  \cup [entity_flags : {536870912},
        vft_func : {rotary_vtf_address},
        puzzle_state : {3},
        editor_id : {"other"}]

\* x & mask # 0, for a mask of one bit.
BitSet(x, mask) == (x \div mask) % 2 = 1

\* run_mod, should_process: bit 0x20000000 of the flags set and bit 0x2000
\* of flags >> 8 clear, or bit 0x1000 of flags >> 8 set.
should_process(entity_flags) ==
  \/ /\ BitSet(entity_flags, 536870912)
     /\ ~BitSet(entity_flags \div 256, 8192)
  \/ BitSet(entity_flags \div 256, 4096)

\* run_mod, the body of the loop for one entity.
ProcessEntity(c, entity) ==
  IF ~should_process(entity.entity_flags)
    THEN c
    ELSE IF entity.vft_func = motion_vtf_address
      THEN
        LET c1 == IF c.ImprovedMotionControls /\ entity.puzzle_state = 3
                    THEN Log(c, "writef32 step")
                    ELSE c
        IN IF c.LockCameraInPuzzles
                /\ entity.puzzle_state > 0
                /\ entity.editor_id # ShipRadio
             THEN [c1 EXCEPT !.wm.lock_camera = TRUE]
             ELSE c1
      ELSE IF entity.vft_func = rotary_vtf_address
        THEN Log(c, "writef32 velocity")
        ELSE c

\* run_mod, the loop from iteration i on, the iterator at entry it.
RECURSIVE WalkObjectList(_, _, _)
WalkObjectList(c, i, it) ==
  IF i >= MaxWalk
    THEN c
    ELSE
      LET c1 == ProcessEntity(c, c.wm.mem[it].entity)
          next_id == c.wm.mem[it].next_id
      IN IF next_id = 65535 THEN c1 ELSE WalkObjectList(c1, i + 1, next_id)

\* A run_mod that does not reset the camera lock first.
run_modKeepsLock(c) ==
  IF c.game \notin {"PRIME_3", "PRIME_3_STANDALONE"}
    THEN c
    ELSE WalkObjectList(c, 0, 0)

\* ContextSensitiveControls::run_mod.
run_mod(c) ==
  LET c0 == [c EXCEPT !.wm.lock_camera = FALSE]
  IN IF c.game \notin {"PRIME_3", "PRIME_3_STANDALONE"}
       THEN c0
       ELSE WalkObjectList(c0, 0, 0)

PrimeInit ==
  /\ wm \in [lock_camera : BOOLEAN,
             mem : [ListIds -> [entity : Entities,
                                next_id : ListIds \cup {65535}]]]
  /\ file = "absent"
  /\ determinism = FALSE
  /\ sent = <<>>
  /\ log = {}
  /\ op = Op("init_mod", [game |-> "PRIME_1", LockCameraInPuzzles |-> FALSE])
  /\ hist = NoHist
  /\ pc = IdlePc
  /\ lock = "free"

\* run_mod is called for a game, with the options as the user has set them.
DoRunMod ==
  \E game \in {"PRIME_1", "PRIME_3", "PRIME_3_STANDALONE"},
     lock_option \in BOOLEAN, improved \in BOOLEAN :
    LET c == run_mod([wm |-> wm, log |-> {}, game |-> game,
                      LockCameraInPuzzles |-> lock_option,
                      ImprovedMotionControls |-> improved])
    IN /\ wm' = c.wm
       /\ log' = c.log
       /\ op' = Op("run_mod",
                   [game |-> game, LockCameraInPuzzles |-> lock_option])
       /\ UNCHANGED <<file, determinism, sent, hist, pc, lock>>

PrimeNext == DoRunMod

PrimeSpec == PrimeInit /\ [][PrimeNext]_vars

----------------------------------------------------------------------------
(* C30 *)

\* The entries the walk visits: the first, and the one named by each
\* visited entry that is not the last and not the MaxWalk-th.
RECURSIVE WalkedTo(_, _)
WalkedTo(mem, k) ==
  IF k = 0
    THEN 0
    ELSE LET prev == WalkedTo(mem, k - 1)
         IN IF prev = 65535 THEN 65535 ELSE mem[prev].next_id

Visited(mem) ==
  {WalkedTo(mem, k) : k \in 0..(MaxWalk - 1)} \ {65535}

\* A processed motion puzzle in a state above 0 that is not the ship radio.
ActivePuzzle(entity) ==
  /\ should_process(entity.entity_flags)
  /\ entity.vft_func = motion_vtf_address
  /\ entity.puzzle_state > 0
  /\ entity.editor_id # ShipRadio

\* C30: after run_mod for a game other than Prime 3 and Prime 3 standalone
\* the camera lock is false, whatever it was before; after run_mod for one
\* of these it is true exactly if the lock-camera-in-puzzles option is
\* enabled and the walk of the object list visited a processed motion
\* puzzle in a state above 0 that is not the ship radio.
C30_CameraLockNeverStuck ==
  op.name = "run_mod"
    => IF op.what.game \notin {"PRIME_3", "PRIME_3_STANDALONE"}
         THEN ~wm.lock_camera
         ELSE wm.lock_camera
                <=> /\ op.what.LockCameraInPuzzles
                    /\ \E it \in Visited(wm.mem) :
                         ActivePuzzle(wm.mem[it].entity)

C30_Witness ==
  /\ op.name = "run_mod"
  /\ op.what.game = "PRIME_3"
  /\ op.what.LockCameraInPuzzles
  /\ wm.lock_camera
  /\ ~ActivePuzzle(wm.mem[0].entity)
  /\ wm.mem[0].next_id = 1
  /\ ActivePuzzle(wm.mem[1].entity)

=============================================================================
